---- MODULE Spec2Model ----
(***************************************************************************)
(* A model of the POSIX storage backend of the gateway                     *)
(* (src/backend/posix/posix.go).                                           *)
(*                                                                         *)
(* The filesystem below the gateway root is one function, fs, from the     *)
(* paths that exist to their nodes.  A path is the sequence of its names;  *)
(* the process's working directory is the root (New does os.Chdir), so a   *)
(* relative path of the code is a path of the model as it stands.  A Go    *)
(* string that holds a key or a path is modelled by its split on "/":      *)
(* "a/b/c/k" is <<"a","b","c","k">>, "a/" is <<"a","">>, "." is <<".">>    *)
(* and "/" is <<"","">>.                                                   *)
(*                                                                         *)
(* A node is [kind, data, attrs]: attrs are the attributes the metadata    *)
(* store keeps for the path.  The store modelled is the default one        *)
(* (extended attributes): attributes live on the inode, so a path that is  *)
(* removed or replaced by a newly linked file loses them.                  *)
(***************************************************************************)
EXTENDS Integers, Sequences, FiniteSets, TLC

VARIABLES
    fs,     \* the filesystem below the root: path -> node
    resp,   \* what the last backend call returned
    used,   \* the upload ids uuid.New has handed out so far
    wpc,    \* concurrent PutObject calls: each writer's position
    wbody,  \* concurrent PutObject calls: each writer's request body
    rpc,    \* the concurrent GetObject call's position
    rdata,  \* the bytes the concurrent GetObject has copied to its writer
    linked, \* the body of the concurrent PutObject that linked last
    obs,    \* what the last concurrent read returned
    tmp     \* the temp file of the call that is under way, and what was left open

vars == <<fs, resp, used, wpc, wbody, rpc, rdata, linked, obs, tmp>>

-----------------------------------------------------------------------------
(* Bounds of the model *)

\* the bytes of a body are 1..MaxByte
MaxByte == 2

\* part numbers are 1..MaxPart
MaxPart == 3

\* the most entries a listing is asked for
MaxList == 2

\* the largest object whose ranges are read
MaxSize == 2

\* the most temp files the model lets calls leave open
MaxLeft == 3

\* user and group ids are 0..MaxId
MaxId == 2

-----------------------------------------------------------------------------
(* Constants of the program *)

metaTmpDir == <<".sgwtmp">>
metaTmpMultipartDir == <<".sgwtmp", "multipart">>
onameAttr == "objname"
etagkey == "etag"
aclkey == "acl"
bucketLockKey == "bucket-lock"
objectRetentionKey == "object-retention"
objectLegalHoldKey == "object-legal-hold"
metaHdr == "X-Amz-Meta"

\* filepath.Separator as a path string
Separator == <<"", "">>

\* the nil error
OK == "OK"

-----------------------------------------------------------------------------
(* Digests.  MD5 is taken to be free of collisions: the hex digest of a    *)
(* byte string is a value that names the string and nothing else.          *)

Md5Hex(body) == <<"md5", body>>

\* "d41d8cd98f00b204e9800998ecf8427e", the MD5 of the empty string
emptyMD5 == <<"md5", <<>>>>

\* the etag a reader reports when the attribute is absent: string(nil)
NoEtag == <<>>

RECURSIVE KeyString(_)
KeyString(p) ==
    IF Len(p) = 0 THEN ""
    ELSE IF Len(p) = 1 THEN p[1]
    ELSE p[1] \o "/" \o KeyString(Tail(p))

\* fmt.Sprintf("%x", sha256.Sum256([]byte(key))): one name per key
Sha256Hex(key) == "sha256(" \o KeyString(key) \o ")"

-----------------------------------------------------------------------------
(* Path strings: path/filepath *)

IsName(e) == e # "" /\ e # "."

\* filepath.Clean of a relative path, as the names it walks through
Clean(p) == SelectSeq(p, IsName)

\* filepath.Join(a, b) of two relative path strings
Join(a, b) == Clean(a \o b)

\* filepath.Dir: all but the last element, cleaned; "." when nothing is left
Dir(p) ==
    LET front == Clean(SubSeq(p, 1, Len(p) - 1))
    IN  IF front = <<>> THEN <<".">> ELSE front

\* strings.HasSuffix(key, "/")
HasSuffixSlash(key) == Len(key) >= 2 /\ key[Len(key)] = ""

-----------------------------------------------------------------------------
(* The filesystem: os.Stat, os.ReadDir, os.Remove, os.RemoveAll *)

NoAttrs == <<>>

NewDir == [kind |-> "dir", data |-> <<>>, attrs |-> NoAttrs]

NewFile(body) == [kind |-> "file", data |-> body, attrs |-> NoAttrs]

Exists(f, p) == p = <<>> \/ p \in DOMAIN f

IsDir(f, p) == p = <<>> \/ (p \in DOMAIN f /\ f[p].kind = "dir")

IsPrefixOf(p, q) == Len(q) >= Len(p) /\ SubSeq(q, 1, Len(p)) = p

\* os.ReadDir(p): the entries directly below p
Children(f, p) == {q \in DOMAIN f : Len(q) = Len(p) + 1 /\ IsPrefixOf(p, q)}

Restrict(f, S) == [q \in S |-> f[q]]

Prefixes(p) == {SubSeq(p, 1, i) : i \in 1..Len(p)}

\* the error of os.Stat(p): ENOTDIR when a name on the way is a file
StatErr(f, p) ==
    IF p \in DOMAIN f \/ p = <<>> THEN OK
    ELSE IF \E q \in Prefixes(p) : q \in DOMAIN f /\ f[q].kind = "file" THEN "ENOTDIR"
    ELSE "ENOENT"

\* os.Remove(p): unlink a file or rmdir an empty directory
OsRemove(f, p) ==
    IF p \notin DOMAIN f THEN [err |-> StatErr(f, p), fs |-> f]
    ELSE IF Children(f, p) # {} THEN [err |-> "ENOTEMPTY", fs |-> f]
    ELSE [err |-> OK, fs |-> Restrict(f, DOMAIN f \ {p})]

\* os.RemoveAll(p): p and everything below it; a missing p is no error
OsRemoveAll(f, p) == Restrict(f, {q \in DOMAIN f : ~IsPrefixOf(p, q)})

\* backend.MkdirAll: create the missing directories of p, top down
MkdirAll(f, p) ==
    IF \E q \in Prefixes(p) : q \in DOMAIN f /\ f[q].kind = "file"
    THEN [err |-> "ENOTDIR", fs |-> f]
    ELSE [err |-> OK,
          fs |-> [q \in DOMAIN f \cup Prefixes(p) |->
                     IF q \in DOMAIN f THEN f[q] ELSE NewDir]]

-----------------------------------------------------------------------------
(* The metadata store (meta.MetadataStorer, extended-attribute variant) *)

\* RetrieveAttribute(bucket, object, key)
RetrieveAttribute(f, bucket, object, key) ==
    LET p == Join(bucket, object)
    IN  IF p \notin DOMAIN f THEN [err |-> StatErr(f, p), val |-> <<>>]
        ELSE IF key \notin DOMAIN f[p].attrs THEN [err |-> "ErrNoSuchKey", val |-> <<>>]
        ELSE [err |-> OK, val |-> f[p].attrs[key]]

\* StoreAttribute(bucket, object, key, value)
StoreAttribute(f, bucket, object, key, val) ==
    LET p == Join(bucket, object)
    IN  IF p \notin DOMAIN f THEN [err |-> StatErr(f, p), fs |-> f]
        ELSE [err |-> OK,
              fs |-> [f EXCEPT ![p].attrs = (key :> val) @@ f[p].attrs]]

\* DeleteAttribute(bucket, object, key): ErrNoSuchKey when it is not there
DeleteAttribute(f, bucket, object, key) ==
    LET p == Join(bucket, object)
    IN  IF p \notin DOMAIN f THEN [err |-> StatErr(f, p), fs |-> f]
        ELSE IF key \notin DOMAIN f[p].attrs THEN [err |-> "ErrNoSuchKey", fs |-> f]
        ELSE [err |-> OK,
              fs |-> [f EXCEPT ![p].attrs =
                         [k \in DOMAIN f[p].attrs \ {key} |-> f[p].attrs[k]]]]

\* DeleteAttributes(bucket, object): every attribute of the path
DeleteAttributes(f, bucket, object) ==
    LET p == Join(bucket, object)
    IN  IF p \notin DOMAIN f THEN f
        ELSE [f EXCEPT ![p].attrs = NoAttrs]

\* the etag a reader gets: string(b), "" when the attribute cannot be read
ReadEtag(f, bucket, object) ==
    LET r == RetrieveAttribute(f, bucket, object, etagkey)
    IN  IF r.err = OK THEN r.val ELSE NoEtag

-----------------------------------------------------------------------------
(* Bucket tagging and bucket policy.  An argument that may be nil is <<>>  *)
(* when it is nil and <<v>> when it is v.  The tags are a function from    *)
(* names to values, kept under tagHdr, "X-Amz-Tagging", as their JSON; the *)
(* policy is bytes, kept under policykey, "policy".                        *)

\* json.Marshal and json.Unmarshal of a map[string]string
JsonMarshal(v) == <<"json", v>>

JsonUnmarshal(b) ==
    IF Len(b) = 2 /\ b[1] = "json" THEN [err |-> OK, val |-> b[2]]
    ELSE [err |-> "InternalError", val |-> <<>>]

\* a PutBucketTagging that adds the tags to the stored ones
PutBucketTaggingMerged(f, bucket, tags) ==
    LET old == RetrieveAttribute(f, bucket, <<"">>, "X-Amz-Tagging")
        kept == IF old.err = OK THEN JsonUnmarshal(old.val).val ELSE <<>>
    IN  IF ~Exists(f, bucket) THEN [err |-> "NoSuchBucket", fs |-> f]
        ELSE IF tags = <<>>
        THEN [err |-> OK,
              fs |-> DeleteAttribute(f, bucket, <<"">>, "X-Amz-Tagging").fs]
        ELSE StoreAttribute(f, bucket, <<"">>, "X-Amz-Tagging",
                            JsonMarshal(tags[1] @@ kept))

PutBucketTagging(f, bucket, tags) ==
    IF ~Exists(f, bucket) THEN [err |-> "NoSuchBucket", fs |-> f]
    ELSE IF tags = <<>>
    THEN LET d == DeleteAttribute(f, bucket, <<"">>, "X-Amz-Tagging")
         IN  IF d.err \notin {OK, "ErrNoSuchKey"}
             THEN [err |-> "InternalError", fs |-> f]
             ELSE [err |-> OK, fs |-> d.fs]
    ELSE LET r == StoreAttribute(f, bucket, <<"">>, "X-Amz-Tagging",
                                 JsonMarshal(tags[1]))
         IN  IF r.err # OK THEN [err |-> "InternalError", fs |-> f] ELSE r

\* getAttrTags(bucket, object)
getAttrTags(f, bucket, object) ==
    LET b == RetrieveAttribute(f, bucket, object, "X-Amz-Tagging")
    IN  IF b.err = "ENOENT" THEN [err |-> "NoSuchKey", val |-> <<>>]
        ELSE IF b.err = "ErrNoSuchKey"
        THEN [err |-> "BucketTaggingNotFound", val |-> <<>>]
        ELSE IF b.err # OK THEN [err |-> "InternalError", val |-> <<>>]
        ELSE JsonUnmarshal(b.val)

GetBucketTagging(f, bucket) ==
    IF ~Exists(f, bucket) THEN [err |-> "NoSuchBucket", val |-> <<>>]
    ELSE getAttrTags(f, bucket, <<"">>)

PutBucketPolicy(f, bucket, policy) ==
    IF ~Exists(f, bucket) THEN [err |-> "NoSuchBucket", fs |-> f]
    ELSE IF policy = <<>>
    THEN LET d == DeleteAttribute(f, bucket, <<"">>, "policy")
         IN  IF d.err \notin {OK, "ErrNoSuchKey"}
             THEN [err |-> "InternalError", fs |-> f]
             ELSE [err |-> OK, fs |-> d.fs]
    ELSE LET r == StoreAttribute(f, bucket, <<"">>, "policy", policy[1])
         IN  IF r.err # OK THEN [err |-> "InternalError", fs |-> f] ELSE r

GetBucketPolicy(f, bucket) ==
    LET policy == RetrieveAttribute(f, bucket, <<"">>, "policy")
    IN  IF ~Exists(f, bucket) THEN [err |-> "NoSuchBucket", val |-> <<>>]
        ELSE IF policy.err = "ErrNoSuchKey"
        THEN [err |-> "NoSuchBucketPolicy", val |-> <<>>]
        ELSE IF policy.err = "ENOENT" THEN [err |-> "NoSuchBucket", val |-> <<>>]
        ELSE IF policy.err # OK THEN [err |-> "InternalError", val |-> <<>>]
        ELSE [err |-> OK, val |-> policy.val]

-----------------------------------------------------------------------------
(* The temp-file publisher (openTmpFile, tmpfile.link) *)

\* openTmpFile(dir, ...): the temp directory exists afterwards; the temp
\* file itself has no name in the filesystem until it is linked
OpenTmpFile(f, dir) == MkdirAll(f, dir)

\* tmpfile.link(): one step that puts a new file with the temp file's
\* bytes (and no attributes) at bucket/object; it fails on a directory
\* and when the parent directory is missing
Link(f, bucket, object, body) ==
    LET p == Join(bucket, object)
    IN  IF IsDir(f, p) THEN [err |-> "EISDIR", fs |-> f]
        ELSE IF ~IsDir(f, SubSeq(p, 1, Len(p) - 1)) THEN [err |-> "ENOENT", fs |-> f]
        ELSE [err |-> OK, fs |-> (p :> NewFile(body)) @@ Restrict(f, DOMAIN f \ {p})]

-----------------------------------------------------------------------------
(* Buckets *)

\* HeadBucket
HeadBucket(f, bucket) ==
    IF ~Exists(f, bucket) THEN "NoSuchBucket" ELSE OK

\* a CreateBucket that takes over a bucket that exists: it stores the acl
\* of the request on it
CreateBucketOver(f, bucket, acl, lockEnabled) ==
    IF Exists(f, bucket)
    THEN [err |-> OK, fs |-> StoreAttribute(f, bucket, <<"">>, aclkey, acl).fs]
    ELSE LET f1 == (bucket :> NewDir) @@ f
             f2 == StoreAttribute(f1, bucket, <<"">>, aclkey, acl).fs
             f3 == IF lockEnabled
                   THEN StoreAttribute(f2, bucket, <<"">>, bucketLockKey,
                                       [Enabled |-> TRUE]).fs
                   ELSE f2
         IN  [err |-> OK, fs |-> f3]

\* CreateBucket(input, acl): mkdir, store the acl and, when the request
\* enables object lock, the bucket-lock record
CreateBucket(f, bucket, acl, lockEnabled) ==
    IF Exists(f, bucket) THEN [err |-> "BucketAlreadyExists", fs |-> f]
    ELSE LET f1 == (bucket :> NewDir) @@ f
             f2 == StoreAttribute(f1, bucket, <<"">>, aclkey, acl).fs
             f3 == IF lockEnabled
                   THEN StoreAttribute(f2, bucket, <<"">>, bucketLockKey,
                                       [Enabled |-> TRUE]).fs
                   ELSE f2
         IN  [err |-> OK, fs |-> f3]

\* DeleteBucket
DeleteBucket(f, bucket) ==
    IF ~Exists(f, bucket) THEN [err |-> "NoSuchBucket", fs |-> f]
    ELSE LET names == Children(f, bucket)
             f1 == IF names = {Join(bucket, metaTmpDir)}
                   THEN OsRemoveAll(f, Join(bucket, metaTmpDir))
                   ELSE f
             r == OsRemove(f1, bucket)
         IN  IF r.err = "ENOTEMPTY" THEN [err |-> "BucketNotEmpty", fs |-> f1]
             ELSE IF r.err # OK THEN [err |-> "InternalError", fs |-> f1]
             ELSE [err |-> OK, fs |-> DeleteAttributes(r.fs, bucket, <<"">>)]

-----------------------------------------------------------------------------
(* Object lock and tagging attributes of an object *)

\* a test that asks only whether the bucket-lock record is there
BucketLockErrWhenAbsent(f, bucket) ==
    LET cfg == RetrieveAttribute(f, bucket, <<"">>, bucketLockKey)
    IN  IF cfg.err = "ErrNoSuchKey" THEN "InvalidBucketObjectLockConfiguration"
        ELSE IF cfg.err # OK THEN "InternalError"
        ELSE OK

\* the bucket-lock precondition shared by PutObjectLegalHold and
\* PutObjectRetention
BucketLockErr(f, bucket) ==
    LET cfg == RetrieveAttribute(f, bucket, <<"">>, bucketLockKey)
    IN  IF cfg.err = "ErrNoSuchKey" THEN "InvalidBucketObjectLockConfiguration"
        ELSE IF cfg.err # OK THEN "InternalError"
        ELSE IF ~cfg.val.Enabled THEN "InvalidBucketObjectLockConfiguration"
        ELSE OK

\* store one attribute of an object, a missing path being NoSuchKey
StoreObjectAttr(f, bucket, object, key, val) ==
    LET r == StoreAttribute(f, bucket, object, key, val)
    IN  IF r.err = "ENOENT" THEN [err |-> "NoSuchKey", fs |-> f]
        ELSE IF r.err # OK THEN [err |-> "InternalError", fs |-> f]
        ELSE r

\* PutObjectLegalHold(bucket, object, versionId, status)
PutObjectLegalHold(f, bucket, object, status) ==
    IF ~Exists(f, bucket) THEN [err |-> "NoSuchBucket", fs |-> f]
    ELSE IF BucketLockErr(f, bucket) # OK THEN [err |-> BucketLockErr(f, bucket), fs |-> f]
    ELSE StoreObjectAttr(f, bucket, object, objectLegalHoldKey,
                         IF status THEN <<1>> ELSE <<0>>)

\* PutObjectRetention(bucket, object, versionId, retention)
PutObjectRetention(f, bucket, object, retention) ==
    IF ~Exists(f, bucket) THEN [err |-> "NoSuchBucket", fs |-> f]
    ELSE IF BucketLockErr(f, bucket) # OK THEN [err |-> BucketLockErr(f, bucket), fs |-> f]
    ELSE StoreObjectAttr(f, bucket, object, objectRetentionKey, retention)

\* a GetObjectLegalHold that reports every stored status as on
GetObjectLegalHoldAsOn(f, bucket, object) ==
    LET data == RetrieveAttribute(f, bucket, object, objectLegalHoldKey)
    IN  IF ~Exists(f, bucket) THEN [err |-> "NoSuchBucket", val |-> FALSE]
        ELSE IF data.err = "ENOENT" THEN [err |-> "NoSuchKey", val |-> FALSE]
        ELSE IF data.err = "ErrNoSuchKey"
        THEN [err |-> "NoSuchObjectLockConfiguration", val |-> FALSE]
        ELSE IF data.err # OK THEN [err |-> "InternalError", val |-> FALSE]
        ELSE [err |-> OK, val |-> TRUE]

\* GetObjectLegalHold(bucket, object, versionId): data[0] == 1
GetObjectLegalHold(f, bucket, object) ==
    LET data == RetrieveAttribute(f, bucket, object, objectLegalHoldKey)
    IN  IF ~Exists(f, bucket) THEN [err |-> "NoSuchBucket", val |-> FALSE]
        ELSE IF data.err = "ENOENT" THEN [err |-> "NoSuchKey", val |-> FALSE]
        ELSE IF data.err = "ErrNoSuchKey"
        THEN [err |-> "NoSuchObjectLockConfiguration", val |-> FALSE]
        ELSE IF data.err # OK THEN [err |-> "InternalError", val |-> FALSE]
        ELSE [err |-> OK, val |-> data.val[1] = 1]

\* GetObjectRetention(bucket, object, versionId)
GetObjectRetention(f, bucket, object) ==
    LET data == RetrieveAttribute(f, bucket, object, objectRetentionKey)
    IN  IF ~Exists(f, bucket) THEN [err |-> "NoSuchBucket", val |-> <<>>]
        ELSE IF data.err = "ENOENT" THEN [err |-> "NoSuchKey", val |-> <<>>]
        ELSE IF data.err = "ErrNoSuchKey"
        THEN [err |-> "NoSuchObjectLockConfiguration", val |-> <<>>]
        ELSE IF data.err # OK THEN [err |-> "InternalError", val |-> <<>>]
        ELSE [err |-> OK, val |-> data.val]

\* a PutObjectLockConfiguration that asks only for a stored record
PutObjectLockConfigurationOverAny(f, bucket, config) ==
    LET cfg == RetrieveAttribute(f, bucket, <<"">>, bucketLockKey)
    IN  IF ~Exists(f, bucket) THEN [err |-> "NoSuchBucket", fs |-> f]
        ELSE IF cfg.err = "ErrNoSuchKey"
        THEN [err |-> "ObjectLockConfigurationNotAllowed", fs |-> f]
        ELSE IF cfg.err # OK THEN [err |-> "InternalError", fs |-> f]
        ELSE StoreAttribute(f, bucket, <<"">>, bucketLockKey, config)

\* a PutObjectLockConfiguration that also stores the record on a bucket
\* that has none
PutObjectLockConfigurationOverAbsent(f, bucket, config) ==
    LET cfg == RetrieveAttribute(f, bucket, <<"">>, bucketLockKey)
    IN  IF ~Exists(f, bucket) THEN [err |-> "NoSuchBucket", fs |-> f]
        ELSE IF cfg.err = OK /\ ~cfg.val.Enabled
        THEN [err |-> "ObjectLockConfigurationNotAllowed", fs |-> f]
        ELSE StoreAttribute(f, bucket, <<"">>, bucketLockKey, config)

\* PutObjectLockConfiguration(bucket, config): config replaces the stored
\* bucket-lock record, its Enabled included
PutObjectLockConfiguration(f, bucket, config) ==
    LET cfg == RetrieveAttribute(f, bucket, <<"">>, bucketLockKey)
    IN  IF ~Exists(f, bucket) THEN [err |-> "NoSuchBucket", fs |-> f]
        ELSE IF cfg.err = "ErrNoSuchKey"
        THEN [err |-> "ObjectLockConfigurationNotAllowed", fs |-> f]
        ELSE IF cfg.err # OK THEN [err |-> "InternalError", fs |-> f]
        ELSE IF ~cfg.val.Enabled
        THEN [err |-> "ObjectLockConfigurationNotAllowed", fs |-> f]
        ELSE StoreAttribute(f, bucket, <<"">>, bucketLockKey, config)

GetObjectLockConfiguration(f, bucket) ==
    LET cfg == RetrieveAttribute(f, bucket, <<"">>, bucketLockKey)
    IN  IF ~Exists(f, bucket) THEN [err |-> "NoSuchBucket", val |-> <<>>]
        ELSE IF cfg.err = "ErrNoSuchKey"
        THEN [err |-> "ObjectLockConfigurationNotFound", val |-> <<>>]
        ELSE IF cfg.err # OK THEN [err |-> "InternalError", val |-> <<>>]
        ELSE [err |-> OK, val |-> cfg.val]

\* PutObjectTagging(bucket, object, tags) with tags not nil
PutObjectTagging(f, bucket, object, tags) ==
    IF ~Exists(f, bucket) THEN [err |-> "NoSuchBucket", fs |-> f]
    ELSE StoreObjectAttr(f, bucket, object, "X-Amz-Tagging", tags)

-----------------------------------------------------------------------------
(* PutObject *)

\* The request: Bucket; Key; Body and ContentLength; Metadata, a function
\* from names to values; Tagging, the header split on "&" and each piece on
\* "=", a name or value being [s, len]; LegalHold, whether
\* ObjectLockLegalHoldStatus is ON; LockMode, "" or a retention mode.

\* a piece of the tagging header that the parse refuses
BadTagPiece(piece) ==
    Len(piece) # 2 \/ piece[1].len > 128 \/ piece[2].len > 256

\* the parsed tags: the last piece of a name wins
ParsedTags(tagging) ==
    [n \in {tagging[i][1].s : i \in 1..Len(tagging)} |->
        LET last == CHOOSE i \in 1..Len(tagging) :
                       /\ tagging[i][1].s = n
                       /\ \A j \in 1..Len(tagging) : tagging[j][1].s = n => j <= i
        IN  tagging[last][2].s]

\* the Metadata loop: one attribute "X-Amz-Meta.<name>" per entry
RECURSIVE StoreUserMeta(_, _, _, _, _)
StoreUserMeta(f, bucket, object, md, names) ==
    IF names = {} THEN f
    ELSE LET k == CHOOSE n \in names : TRUE
         IN  StoreUserMeta(
                 StoreAttribute(f, bucket, object, metaHdr \o "." \o k, md[k]).fs,
                 bucket, object, md, names \ {k})

\* the directory-object branch: key ends in "/"
PutObjectDir(f, po) ==
    IF po.ContentLength # 0
    THEN [err |-> "DirectoryObjectContainsData", etag |-> NoEtag, fs |-> f]
    ELSE LET m == MkdirAll(f, Join(po.Bucket, po.Key))
         IN  IF m.err # OK THEN [err |-> "InternalError", etag |-> NoEtag, fs |-> f]
             ELSE LET f1 == StoreUserMeta(m.fs, po.Bucket, po.Key, po.Metadata,
                                          DOMAIN po.Metadata)
                      f2 == StoreAttribute(f1, po.Bucket, po.Key, etagkey, emptyMD5).fs
                  IN  [err |-> OK, etag |-> emptyMD5, fs |-> f2]

\* an etag that does not depend on the bytes of the body
ObjectEtagOfNothing(body) == emptyMD5

\* hex.EncodeToString(hash.Sum(nil)) of the MD5 the body was teed through
ObjectEtag(body) == Md5Hex(body)

\* what follows the link: user metadata, tagging, legal hold, retention and,
\* last, the etag; the first error returns with what was stored before it
PutObjectAttrs(f, po) ==
    LET f1 == StoreUserMeta(f, po.Bucket, po.Key, po.Metadata, DOMAIN po.Metadata)
        t  == IF po.Tagging # <<>>
              THEN PutObjectTagging(f1, po.Bucket, po.Key, ParsedTags(po.Tagging))
              ELSE [err |-> OK, fs |-> f1]
        h  == IF po.LegalHold
              THEN PutObjectLegalHold(t.fs, po.Bucket, po.Key, TRUE)
              ELSE [err |-> OK, fs |-> t.fs]
        r  == IF po.LockMode # ""
              THEN PutObjectRetention(h.fs, po.Bucket, po.Key, [Mode |-> po.LockMode])
              ELSE [err |-> OK, fs |-> h.fs]
        etag == ObjectEtag(po.Body)
    IN  IF t.err # OK THEN [err |-> t.err, etag |-> NoEtag, fs |-> t.fs]
        ELSE IF h.err # OK THEN [err |-> h.err, etag |-> NoEtag, fs |-> h.fs]
        ELSE IF r.err # OK THEN [err |-> r.err, etag |-> NoEtag, fs |-> r.fs]
        ELSE [err |-> OK, etag |-> etag,
              fs |-> StoreAttribute(r.fs, po.Bucket, po.Key, etagkey, etag).fs]

\* the file branch: temp file, parent directories, link, attributes
PutObjectFile(f, po) ==
    LET name == Join(po.Bucket, po.Key)
    IN  IF IsDir(f, name)
        THEN [err |-> "ExistingObjectIsDirectory", etag |-> NoEtag, fs |-> f]
        ELSE LET t == OpenTmpFile(f, Join(po.Bucket, metaTmpDir))
                 m == MkdirAll(t.fs, SubSeq(name, 1, Len(name) - 1))
                 l == Link(m.fs, po.Bucket, po.Key, po.Body)
             IN  IF t.err # OK
                 THEN [err |-> "InternalError", etag |-> NoEtag, fs |-> f]
                 ELSE IF m.err # OK
                 THEN [err |-> "ExistingObjectIsDirectory", etag |-> NoEtag, fs |-> t.fs]
                 ELSE IF l.err # OK
                 THEN [err |-> "ExistingObjectIsDirectory", etag |-> NoEtag, fs |-> m.fs]
                 ELSE PutObjectAttrs(l.fs, po)

PutObject(f, po) ==
    IF ~Exists(f, po.Bucket)
    THEN [err |-> "NoSuchBucket", etag |-> NoEtag, fs |-> f]
    ELSE IF \E i \in 1..Len(po.Tagging) : BadTagPiece(po.Tagging[i])
    THEN [err |-> "InvalidTag", etag |-> NoEtag, fs |-> f]
    ELSE IF HasSuffixSlash(po.Key) THEN PutObjectDir(f, po)
    ELSE PutObjectFile(f, po)

-----------------------------------------------------------------------------
(* DeleteObject *)

\* a walk that removes the parents whether or not they carry an etag
RECURSIVE removeParentsAnyway(_, _, _)
removeParentsAnyway(f, bucket, objPath) ==
    LET parent == Dir(objPath)
        r == OsRemove(f, Join(bucket, parent))
    IN  IF parent = Separator THEN f
        ELSE IF r.err # OK THEN f
        ELSE removeParentsAnyway(r.fs, bucket, parent)

\* removeParents: the loop, from objPath upward
RECURSIVE removeParents(_, _, _)
removeParents(f, bucket, objPath) ==
    LET parent == Dir(objPath)
        r == OsRemove(f, Join(bucket, parent))
    IN  IF parent = Separator THEN f
        ELSE IF RetrieveAttribute(f, bucket, parent, etagkey).err = OK THEN f
        ELSE IF r.err # OK THEN f
        ELSE removeParents(r.fs, bucket, parent)

\* a DeleteObject that refuses an object whose legal hold is on
DeleteObjectUnlessHeld(f, bucket, object) ==
    LET h == RetrieveAttribute(f, bucket, object, objectLegalHoldKey)
        r == OsRemove(f, Join(bucket, object))
    IN  IF ~Exists(f, bucket) THEN [err |-> "NoSuchBucket", fs |-> f]
        ELSE IF h.err = OK /\ h.val = <<1>> THEN [err |-> "ObjectLocked", fs |-> f]
        ELSE IF r.err = "ENOENT" THEN [err |-> "NoSuchKey", fs |-> f]
        ELSE IF r.err # OK THEN [err |-> "InternalError", fs |-> f]
        ELSE [err |-> OK,
              fs |-> removeParents(DeleteAttributes(r.fs, bucket, object),
                                   bucket, object)]

\* DeleteObject
DeleteObject(f, bucket, object) ==
    IF ~Exists(f, bucket) THEN [err |-> "NoSuchBucket", fs |-> f]
    ELSE LET r == OsRemove(f, Join(bucket, object))
         IN  IF r.err = "ENOENT" THEN [err |-> "NoSuchKey", fs |-> f]
             ELSE IF r.err # OK THEN [err |-> "InternalError", fs |-> f]
             ELSE [err |-> OK,
                   fs |-> removeParents(DeleteAttributes(r.fs, bucket, object),
                                        bucket, object)]

-----------------------------------------------------------------------------
(* GetObject and HeadObject *)

Min(a, b) == IF a < b THEN a ELSE b

\* backend.ParseRange on "bytes=<start>-" (end = -1) and "bytes=<start>-<end>":
\* the start and the length, -1 for "to the end"
ParseRange(range) ==
    IF range.end = -1 THEN [err |-> OK, start |-> range.start, length |-> -1]
    ELSE IF range.end < range.start
    THEN [err |-> "InvalidRange", start |-> 0, length |-> 0]
    ELSE [err |-> OK, start |-> range.start, length |-> range.end - range.start + 1]

\* io.Copy(writer, io.NewSectionReader(f, start, length))
SectionRead(data, start, length) ==
    SubSeq(data, start + 1, Min(start + length, Len(data)))

GetObjectFail(err) == [err |-> err, data |-> <<>>, etag |-> NoEtag, length |-> 0]

GetObject(f, bucket, object, range) ==
    LET objPath == Join(bucket, object)
        pr == ParseRange(range)
        isDir == IsDir(f, objPath)
        objSize == IF isDir THEN 0 ELSE Len(f[objPath].data)
        length == IF isDir THEN 0
                  ELSE IF pr.length = -1 THEN objSize - pr.start + 1
                  ELSE pr.length
    IN  IF ~Exists(f, bucket) THEN GetObjectFail("NoSuchBucket")
        ELSE IF StatErr(f, objPath) = "ENOENT" THEN GetObjectFail("NoSuchKey")
        ELSE IF StatErr(f, objPath) # OK THEN GetObjectFail("InternalError")
        ELSE IF pr.err # OK THEN GetObjectFail(pr.err)
        ELSE IF pr.start + length > objSize + 1 THEN GetObjectFail("InvalidRange")
        ELSE [err |-> OK,
              data |-> IF isDir THEN <<>>
                       ELSE SectionRead(f[objPath].data, pr.start, length),
              etag |-> ReadEtag(f, bucket, object),
              length |-> length]

HeadObject(f, bucket, object) ==
    LET objPath == Join(bucket, object)
    IN  IF ~Exists(f, bucket) THEN [err |-> "NoSuchBucket", etag |-> NoEtag, size |-> 0]
        ELSE IF StatErr(f, objPath) = "ENOENT"
        THEN [err |-> "NoSuchKey", etag |-> NoEtag, size |-> 0]
        ELSE IF StatErr(f, objPath) # OK
        THEN [err |-> "InternalError", etag |-> NoEtag, size |-> 0]
        ELSE [err |-> OK, etag |-> ReadEtag(f, bucket, object),
              size |-> Len(f[objPath].data)]

-----------------------------------------------------------------------------
(* DeleteObjects *)

\* a batch that ends at the first key that fails
RECURSIVE DeleteObjectsUntilError(_, _, _)
DeleteObjectsUntilError(f, bucket, keys) ==
    IF keys = <<>> THEN [err |-> OK, fs |-> f, Deleted |-> <<>>, Error |-> <<>>]
    ELSE LET d == DeleteObject(f, bucket, Head(keys))
             rest == DeleteObjectsUntilError(d.fs, bucket, Tail(keys))
         IN  IF d.err = OK
             THEN [err |-> OK, fs |-> rest.fs,
                   Deleted |-> <<Head(keys)>> \o rest.Deleted,
                   Error |-> rest.Error]
             ELSE [err |-> OK, fs |-> d.fs, Deleted |-> <<>>,
                   Error |-> <<[Key |-> Head(keys), Code |-> d.err]>>]

\* the code DeleteObjects reports for a key: the S3 code of the error of
\* DeleteObject, "InternalError" for any other error
RECURSIVE DeleteObjects(_, _, _)
DeleteObjects(f, bucket, keys) ==
    IF keys = <<>> THEN [err |-> OK, fs |-> f, Deleted |-> <<>>, Error |-> <<>>]
    ELSE LET d == DeleteObject(f, bucket, Head(keys))
             rest == DeleteObjects(d.fs, bucket, Tail(keys))
         IN  [err |-> OK, fs |-> rest.fs,
              Deleted |-> IF d.err = OK THEN <<Head(keys)>> \o rest.Deleted
                          ELSE rest.Deleted,
              Error |-> IF d.err = OK THEN rest.Error
                        ELSE <<[Key |-> Head(keys), Code |-> d.err]>> \o rest.Error]

-----------------------------------------------------------------------------
(* Listing: fileToObj, backend.Walk, ListObjects and ListObjectsV2.  A key  *)
(* string is compared and cut name by name; no name of the model is the    *)
(* beginning of another one, so this is the order and the prefix relation  *)
(* of the strings.                                                         *)

\* p < q for two key strings; order lists the names that occur in keys in
\* the byte order of Go strings
KeyLess(p, q) ==
    LET order == <<"", ".sgwtmp", "a", "b", "c", "d", "k", "x">>
        rank(n) == IF \E i \in 1..Len(order) : order[i] = n
                   THEN CHOOSE i \in 1..Len(order) : order[i] = n
                   ELSE Len(order) + 1
    IN  \E i \in 1..Len(q) :
            /\ i <= Len(p) + 1
            /\ SubSeq(p, 1, i - 1) = SubSeq(q, 1, i - 1)
            /\ (i = Len(p) + 1 \/ rank(p[i]) < rank(q[i]))

\* strings.HasPrefix(key, prefix); the last name of the prefix is whole or
\* empty
HasPrefix(key, prefix) ==
    \/ prefix = <<>>
    \/ /\ Len(prefix) <= Len(key)
       /\ SubSeq(key, 1, Len(prefix) - 1) = SubSeq(prefix, 1, Len(prefix) - 1)
       /\ prefix[Len(prefix)] \in {"", key[Len(prefix)]}

\* the callback of the walk for the entry at path: skip, or the object
fileToObj(f, bucket, path) ==
    LET etag == RetrieveAttribute(f, bucket, path, etagkey)
        node == f[Join(bucket, path)]
    IN  IF node.kind = "dir"
        THEN IF etag.err # OK
             THEN [skip |-> TRUE, Key |-> path, ETag |-> NoEtag, Size |-> 0]
             ELSE [skip |-> FALSE, Key |-> path \o <<"">>, ETag |-> etag.val,
                   Size |-> 0]
        ELSE [skip |-> FALSE, Key |-> path,
              ETag |-> IF etag.err = OK THEN etag.val ELSE NoEtag,
              Size |-> Len(node.data)]

\* a set of key strings in ascending order
RECURSIVE SortKeys(_)
SortKeys(S) ==
    IF S = {} THEN <<>>
    ELSE LET m == CHOOSE x \in S : \A y \in S : ~KeyLess(y, x)
         IN  <<m>> \o SortKeys(S \ {m})

\* backend.Walk(fileSystem, prefix, delimiter, marker, max, getObj,
\* skipdirs): the callback sees the files and the empty directories that
\* are not under a skipped directory; the keys that have the prefix and
\* come after the marker are rolled up at the delimiter "/", put in order
\* and cut at max entries
Walk(f, bucket, prefix, delim, marker, max, skipdirs) ==
    LET walked == {p \in DOMAIN f :
                      /\ Len(p) > Len(bucket) /\ IsPrefixOf(bucket, p)
                      /\ \A s \in skipdirs : ~IsPrefixOf(bucket \o s, p)
                      /\ (f[p].kind = "file" \/ Children(f, p) = {})}
        objs == {o \in {fileToObj(f, bucket, SubSeq(p, Len(bucket) + 1, Len(p))) :
                            p \in walked} :
                    ~o.skip /\ HasPrefix(o.Key, prefix) /\ KeyLess(marker, o.Key)}
        cut == IF prefix = <<>> THEN 1 ELSE Len(prefix)
        rolled == {o \in objs : delim = "/" /\ Len(o.Key) > cut}
        keys == {o.Key : o \in objs \ rolled}
        cps == {SubSeq(o.Key, 1, cut) \o <<"">> : o \in rolled}
        all == SortKeys(keys \cup cps)
        page == IF Len(all) > max THEN SubSeq(all, 1, max) ELSE all
        listed == SelectSeq(page, LAMBDA k : k \in keys)
    IN  [Objects |-> [i \in 1..Len(listed) |->
                         LET o == CHOOSE x \in objs : x.Key = listed[i]
                         IN  [Key |-> o.Key, ETag |-> o.ETag, Size |-> o.Size]],
         CommonPrefixes |-> SelectSeq(page, LAMBDA k : k \in cps),
         Truncated |-> Len(all) > max,
         NextMarker |-> IF Len(all) > max /\ page # <<>>
                        THEN page[Len(page)] ELSE <<>>]

ListFail(err) ==
    [err |-> err, Contents |-> <<>>, CommonPrefixes |-> <<>>,
     IsTruncated |-> FALSE, Marker |-> <<>>, NextMarker |-> <<>>]

\* a ListObjects whose walk skips no directory
ListObjectsOfEverything(f, bucket, prefix, marker, delim, maxkeys) ==
    IF ~Exists(f, bucket) THEN ListFail("NoSuchBucket")
    ELSE LET results == Walk(f, bucket, prefix, delim, marker, maxkeys, {})
         IN  [err |-> OK, Contents |-> results.Objects,
              CommonPrefixes |-> results.CommonPrefixes,
              IsTruncated |-> results.Truncated,
              Marker |-> marker, NextMarker |-> results.NextMarker]

\* ListObjects; Marker and NextMarker are the fields of its output
ListObjects(f, bucket, prefix, marker, delim, maxkeys) ==
    IF ~Exists(f, bucket) THEN ListFail("NoSuchBucket")
    ELSE LET results == Walk(f, bucket, prefix, delim, marker, maxkeys,
                             {metaTmpDir})
         IN  [err |-> OK, Contents |-> results.Objects,
              CommonPrefixes |-> results.CommonPrefixes,
              IsTruncated |-> results.Truncated,
              Marker |-> marker, NextMarker |-> results.NextMarker]

\* a ListObjectsV2 that starts every page at the beginning of the bucket
ListObjectsV2FromStart(f, bucket, prefix, token, startAfter, delim, maxkeys) ==
    LET results == Walk(f, bucket, prefix, delim, <<>>, maxkeys, {metaTmpDir})
    IN  IF ~Exists(f, bucket) THEN ListFail("NoSuchBucket")
        ELSE [err |-> OK, Contents |-> results.Objects,
              CommonPrefixes |-> results.CommonPrefixes,
              IsTruncated |-> results.Truncated,
              Marker |-> <<>>, NextMarker |-> results.NextMarker]

\* a ListObjectsV2 that starts after the token whatever StartAfter is
ListObjectsV2AfterToken(f, bucket, prefix, token, startAfter, delim, maxkeys) ==
    LET marker == IF token # <<>> THEN token[1] ELSE <<>>
        results == Walk(f, bucket, prefix, delim, marker, maxkeys, {metaTmpDir})
    IN  IF ~Exists(f, bucket) THEN ListFail("NoSuchBucket")
        ELSE [err |-> OK, Contents |-> results.Objects,
              CommonPrefixes |-> results.CommonPrefixes,
              IsTruncated |-> results.Truncated,
              Marker |-> marker, NextMarker |-> results.NextMarker]

\* ListObjectsV2; a ContinuationToken or StartAfter of the request is <<>>
\* when it is absent and <<s>> when it is the string s; Marker and
\* NextMarker are ContinuationToken and NextContinuationToken of the output
ListObjectsV2(f, bucket, prefix, token, startAfter, delim, maxkeys) ==
    LET marker == IF token # <<>>
                  THEN IF startAfter # <<>>
                       THEN IF KeyLess(token[1], startAfter[1])
                            THEN startAfter[1] ELSE token[1]
                       ELSE token[1]
                  ELSE <<>>
        results == Walk(f, bucket, prefix, delim, marker, maxkeys, {metaTmpDir})
    IN  IF ~Exists(f, bucket) THEN ListFail("NoSuchBucket")
        ELSE [err |-> OK, Contents |-> results.Objects,
              CommonPrefixes |-> results.CommonPrefixes,
              IsTruncated |-> results.Truncated,
              Marker |-> marker, NextMarker |-> results.NextMarker]

-----------------------------------------------------------------------------
(* ListBuckets and ChangeBucketOwner.  The acl of a bucket is the record   *)
(* of its JSON: Owner and Grantees.                                        *)

\* a ListBuckets that returns every bucket to every caller
ListBucketsOfAll(f, owner, isAdmin) ==
    [err |-> OK,
     Buckets |-> SortKeys({p \in DOMAIN f : Len(p) = 1 /\ f[p].kind = "dir"})]

\* ListBuckets(owner, isAdmin): the directories of the root, for a caller
\* who is no admin those whose acl names the caller as owner, by name
ListBuckets(f, owner, isAdmin) ==
    LET entries == {p \in DOMAIN f : Len(p) = 1 /\ f[p].kind = "dir"}
        aclTag(p) == RetrieveAttribute(f, p, <<"">>, aclkey)
    IN  IF isAdmin THEN [err |-> OK, Buckets |-> SortKeys(entries)]
        ELSE IF \E p \in entries : aclTag(p).err # OK
        THEN [err |-> "InternalError", Buckets |-> <<>>]
        ELSE [err |-> OK,
              Buckets |-> SortKeys({p \in entries : aclTag(p).val.Owner = owner})]

ChangeBucketOwner(f, bucket, newOwner) ==
    LET aclTag == RetrieveAttribute(f, bucket, <<"">>, aclkey)
    IN  IF ~Exists(f, bucket) THEN [err |-> "NoSuchBucket", fs |-> f]
        ELSE IF aclTag.err # OK THEN [err |-> "InternalError", fs |-> f]
        ELSE LET r == StoreAttribute(f, bucket, <<"">>, aclkey,
                                     [aclTag.val EXCEPT !.Owner = newOwner])
             IN  IF r.err # OK THEN [err |-> "InternalError", fs |-> f] ELSE r

-----------------------------------------------------------------------------
(* The calls of the model and their inputs *)

\* the bucket of the model
Bucket == <<"b">>

\* request bodies: the empty body and the one-byte bodies
Bodies == {<<>>} \cup {<<x>> : x \in 1..MaxByte}

NoMeta == <<>>

\* Range "bytes=0-": the whole object
WholeRange == [start |-> 0, end |-> -1]

Resp(op, key, err, etag, data, n) ==
    [op |-> op, key |-> key, err |-> err, etag |-> etag, data |-> data, n |-> n]

NoResp == Resp("none", <<>>, OK, NoEtag, <<>>, 0)

Writers == {"w1", "w2"}

UNCHANGED_conc == UNCHANGED <<wpc, wbody, rpc, rdata, linked, obs, tmp>>

\* no call with a temp file is under way and none was left open
NoTmp == [op |-> "", pc |-> "idle", at |-> "", have |-> FALSE, linked |-> FALSE,
          cleaned |-> FALSE, deferred |-> FALSE, n |-> 0, left |-> 0,
          err |-> OK]

Init ==
    /\ fs = <<>>
    /\ resp = NoResp
    /\ used = {}
    /\ wpc = [w \in Writers |-> "idle"]
    /\ wbody = [w \in Writers |-> <<>>]
    /\ rpc = "idle"
    /\ rdata = <<>>
    /\ linked = <<>>
    /\ obs = NoResp
    /\ tmp = NoTmp

PutInput(key, body, hold) ==
    [Bucket |-> Bucket, Key |-> key, Body |-> body, ContentLength |-> Len(body),
     Metadata |-> NoMeta, Tagging |-> <<>>, LegalHold |-> hold, LockMode |-> ""]

CallCreateBucket(locks) ==
    \E lock \in locks :
        LET r == CreateBucket(fs, Bucket, [Owner |-> "root"], lock)
        IN  /\ fs' = r.fs
            /\ resp' = Resp("CreateBucket", <<>>, r.err, NoEtag, <<>>, 0)
            /\ UNCHANGED used /\ UNCHANGED_conc

CallDeleteBucket ==
    LET r == DeleteBucket(fs, Bucket)
    IN  /\ fs' = r.fs
        /\ resp' = Resp("DeleteBucket", <<>>, r.err, NoEtag, <<>>, 0)
        /\ UNCHANGED used /\ UNCHANGED_conc

CallHeadBucket ==
    /\ resp' = Resp("HeadBucket", <<>>, HeadBucket(fs, Bucket), NoEtag, <<>>, 0)
    /\ UNCHANGED <<fs, used>> /\ UNCHANGED_conc

CallPutObject(keys, bodies, holds) ==
    \E key \in keys, body \in bodies, hold \in holds :
        LET r == PutObject(fs, PutInput(key, body, hold))
        IN  /\ fs' = r.fs
            /\ resp' = Resp("PutObject", key, r.err, r.etag, body, 0)
            /\ UNCHANGED used /\ UNCHANGED_conc

CallDeleteObject(keys) ==
    \E key \in keys :
        LET r == DeleteObject(fs, Bucket, key)
        IN  /\ fs' = r.fs
            /\ resp' = Resp("DeleteObject", key, r.err, NoEtag, <<>>, 0)
            /\ UNCHANGED used /\ UNCHANGED_conc

CallDeleteObjects(keys1, keys2) ==
    \E k1 \in keys1, k2 \in keys2 :
        LET r == DeleteObjects(fs, Bucket, <<k1, k2>>)
        IN  /\ fs' = r.fs
            /\ resp' = Resp("DeleteObjects", <<k1, k2>>, r.err, NoEtag,
                            [Deleted |-> r.Deleted, Error |-> r.Error], 0)
            /\ UNCHANGED used /\ UNCHANGED_conc

CallGetObject(keys) ==
    \E key \in keys :
        LET r == GetObject(fs, Bucket, key, WholeRange)
        IN  /\ resp' = Resp("GetObject", key, r.err, r.etag, r.data, r.length)
            /\ UNCHANGED <<fs, used>> /\ UNCHANGED_conc

CallHeadObject(keys) ==
    \E key \in keys :
        LET r == HeadObject(fs, Bucket, key)
        IN  /\ resp' = Resp("HeadObject", key, r.err, r.etag, <<>>, r.size)
            /\ UNCHANGED <<fs, used>> /\ UNCHANGED_conc

-----------------------------------------------------------------------------
(* Spec: objects of one bucket, with and without object lock.  The keys    *)
(* are the files "k" and "a/k", the directory-object "a/" and, for reads and        *)
(* deletes, "a".                                                           *)

FileKeys == {<<"k">>, <<"a", "k">>}

DirKeys == {<<"a", "">>}

PutKeys == FileKeys \cup DirKeys

DelKeys == PutKeys \cup {<<"a">>}

Next ==
    \/ CallCreateBucket(BOOLEAN)
    \/ CallDeleteBucket
    \/ CallHeadBucket
    \/ CallPutObject(PutKeys, Bodies, BOOLEAN)
    \/ CallDeleteObject(DelKeys)
    \/ CallGetObject(DelKeys)
    \/ CallHeadObject(DelKeys)

Spec == Init /\ [][Next]_vars

-----------------------------------------------------------------------------
(* SpecTree: the directory tree of one bucket without object lock.  The    *)
(* keys are the files "k" and "a/b/c/k", the directory-objects "a/",       *)
(* "a/b/", "a/b/c/" and "a/d/" and, for deletes, "a", "a/b" and "a/b/c"    *)
(* named without the trailing "/".                                         *)

TreeFileKeys == {<<"k">>, <<"a", "b", "c", "k">>}

TreeDirKeys ==
    {<<"a", "">>, <<"a", "b", "">>, <<"a", "b", "c", "">>, <<"a", "d", "">>}

TreeDelKeys ==
    TreeFileKeys \cup TreeDirKeys \cup {<<"a">>, <<"a", "b">>, <<"a", "b", "c">>}

NextTree ==
    \/ CallCreateBucket({FALSE})
    \/ CallDeleteBucket
    \/ CallHeadBucket
    \/ CallPutObject(TreeFileKeys, {<<1>>}, {FALSE})
    \/ CallPutObject(TreeDirKeys, {<<>>}, {FALSE})
    \/ CallDeleteObject(TreeDelKeys)
    \/ CallDeleteObjects(TreeDelKeys, {<<"k">>, <<"a">>})

SpecTree == Init /\ [][NextTree]_vars

-----------------------------------------------------------------------------
(* SpecConc: PutObject calls on one key that run concurrently with each    *)
(* other and with readers.  A call is cut where it makes its changes       *)
(* visible: after the temp file is written (posix.go 1128-1225), after the *)
(* link (1226-1237), and at its return, after the attributes and the etag  *)
(* are stored (1239-1284).  GetObject is cut between the copy of the bytes *)
(* (1402-1494) and the read of the attributes (1496-1527).                 *)

ConcKey == <<"k">>

InitConc ==
    /\ fs = CreateBucket(<<>>, Bucket, [Owner |-> "root"], FALSE).fs
    /\ resp = NoResp
    /\ used = {}
    /\ wpc = [w \in Writers |-> "idle"]
    /\ wbody = [w \in Writers |-> <<>>]
    /\ rpc = "idle"
    /\ rdata = <<>>
    /\ linked = <<>>
    /\ obs = NoResp
    /\ tmp = NoTmp

\* PutObject up to the copy of the body into the temp file
PutOpen(w) ==
    \E body \in Bodies :
        LET t == OpenTmpFile(fs, Join(Bucket, metaTmpDir))
        IN  /\ wpc[w] = "idle"
            /\ Exists(fs, Bucket)
            /\ ~IsDir(fs, Join(Bucket, ConcKey))
            /\ t.err = OK
            /\ fs' = t.fs
            /\ wpc' = [wpc EXCEPT ![w] = "opened"]
            /\ wbody' = [wbody EXCEPT ![w] = body]
            /\ UNCHANGED <<resp, used, rpc, rdata, linked, obs, tmp>>

\* PutObject: the parent directories and the link
PutLink(w) ==
    LET name == Join(Bucket, ConcKey)
        m == MkdirAll(fs, SubSeq(name, 1, Len(name) - 1))
        l == Link(m.fs, Bucket, ConcKey, wbody[w])
    IN  /\ wpc[w] = "opened"
        /\ m.err = OK
        /\ l.err = OK
        /\ fs' = l.fs
        /\ wpc' = [wpc EXCEPT ![w] = "linked"]
        /\ linked' = wbody[w]
        /\ UNCHANGED <<resp, used, wbody, rpc, rdata, obs, tmp>>

\* PutObject: the attributes, the etag and the return
PutReturn(w) ==
    LET r == PutObjectAttrs(fs, PutInput(ConcKey, wbody[w], FALSE))
    IN  /\ wpc[w] = "linked"
        /\ fs' = r.fs
        /\ wpc' = [wpc EXCEPT ![w] = IF r.err = OK THEN "done" ELSE "idle"]
        /\ UNCHANGED <<resp, used, wbody, rpc, rdata, linked, obs, tmp>>

\* the caller starts over
PutAgain(w) ==
    /\ wpc[w] = "done"
    /\ wpc' = [wpc EXCEPT ![w] = "idle"]
    /\ UNCHANGED <<fs, resp, used, wbody, rpc, rdata, linked, obs, tmp>>

\* GetObject: stat, open and the copy of the bytes to the writer
GetCopy ==
    LET r == GetObject(fs, Bucket, ConcKey, WholeRange)
    IN  /\ rpc = "idle"
        /\ IF r.err = OK
           THEN /\ rpc' = "copied"
                /\ rdata' = r.data
                /\ obs' = obs
           ELSE /\ rpc' = "idle"
                /\ rdata' = <<>>
                /\ obs' = Resp("GetObject", ConcKey, r.err, NoEtag, <<>>, 0)
        /\ UNCHANGED <<fs, resp, used, wpc, wbody, linked, tmp>>

\* GetObject: the attributes of the path as they are now, and the return
GetReturn ==
    /\ rpc = "copied"
    /\ rpc' = "idle"
    /\ rdata' = <<>>
    /\ obs' = Resp("GetObject", ConcKey, OK, ReadEtag(fs, Bucket, ConcKey),
                   rdata, Len(rdata))
    /\ UNCHANGED <<fs, resp, used, wpc, wbody, linked, tmp>>

\* HeadObject
ConcHead ==
    LET r == HeadObject(fs, Bucket, ConcKey)
    IN  /\ obs' = Resp("HeadObject", ConcKey, r.err, r.etag, <<>>, r.size)
        /\ UNCHANGED <<fs, resp, used, wpc, wbody, rpc, rdata, linked, tmp>>

NextConc ==
    \/ \E w \in Writers : PutOpen(w)
    \/ \E w \in Writers : PutLink(w)
    \/ \E w \in Writers : PutReturn(w)
    \/ \E w \in Writers : PutAgain(w)
    \/ GetCopy
    \/ GetReturn
    \/ ConcHead

SpecConc == InitConc /\ [][NextConc]_vars

-----------------------------------------------------------------------------
(* Multipart uploads *)

\* fmt.Sprintf("%v", partNumber): the name of a part file
PartName(n) == ToString(n)

\* strconv.Atoi of the name of a directory entry, 0 when it is no number
Atoi(name) ==
    IF \E n \in 1..MaxPart : PartName(n) = name
    THEN CHOOSE n \in 1..MaxPart : PartName(n) = name
    ELSE 0

\* fi.Size()
FileSize(f, p) == IF f[p].kind = "file" THEN Len(f[p].data) ELSE 0

\* the attributes user metadata is read back from
MetaNames == {"x"}

isValidMeta(val) ==
    \/ val \in {metaHdr \o "." \o k : k \in MetaNames}
    \/ val = "Expires"

\* strings.TrimPrefix(e, metaHdr + ".")
TrimMetaPrefix(e) ==
    IF \E k \in MetaNames : metaHdr \o "." \o k = e
    THEN CHOOSE k \in MetaNames : metaHdr \o "." \o k = e
    ELSE e

\* loadUserMetaData: the map it fills in from the attributes of bucket/object
loadUserMetaData(f, bucket, object) ==
    LET p == Join(bucket, object)
        ents == IF p \in DOMAIN f
                THEN {e \in DOMAIN f[p].attrs : isValidMeta(e)}
                ELSE {}
    IN  [k \in {TrimMetaPrefix(e) : e \in ents} |->
            f[p].attrs[CHOOSE e \in ents : TrimMetaPrefix(e) = k]]

\* compareUserMetadata: as many entries, and every entry of meta1 in meta2
\* with its value, a name that meta2 lacks reading as ""
compareUserMetadata(meta1, meta2) ==
    /\ Cardinality(DOMAIN meta1) = Cardinality(DOMAIN meta2)
    /\ \A key \in DOMAIN meta1 :
           (IF key \in DOMAIN meta2 THEN meta2[key] ELSE "") = meta1[key]

\* CopyObject onto itself, the loop over the loaded metadata: it deletes
\* the attribute named by the key of the map, the name without its prefix
RECURSIVE DeleteLoadedMeta(_, _, _, _)
DeleteLoadedMeta(f, bucket, object, names) ==
    IF names = {} THEN [err |-> OK, fs |-> f]
    ELSE LET key == CHOOSE n \in names : TRUE
             d == DeleteAttribute(f, bucket, object, key)
         IN  IF d.err # OK THEN [err |-> "InternalError", fs |-> f]
             ELSE DeleteLoadedMeta(d.fs, bucket, object, names \ {key})

CopyObjectFail(err, f) == [err |-> err, etag |-> NoEtag, fs |-> f]

\* CopyObject; dirSize is the size the filesystem reports for a directory.
\* The body PutObject is given is the open source: the read of a directory
\* fails once the temp file is open.
CopyObject(f, srcBucket, srcObject, dstBucket, dstObject, metadata, dirSize) ==
    LET objPath == Join(srcBucket, srcObject)
        dstObjdPath == Join(dstBucket, dstObject)
        srcIsDir == IsDir(f, objPath)
        meta == loadUserMetaData(f, srcBucket, srcObject)
        same == dstObjdPath = objPath
        d == DeleteLoadedMeta(f, dstBucket, dstObject, DOMAIN meta)
        f1 == IF same
              THEN StoreUserMeta(d.fs, dstBucket, dstObject, metadata,
                                 DOMAIN metadata)
              ELSE f
        po == [Bucket |-> dstBucket, Key |-> dstObject,
               Body |-> IF srcIsDir THEN <<>> ELSE f[objPath].data,
               ContentLength |-> IF srcIsDir THEN dirSize ELSE Len(f[objPath].data),
               Metadata |-> meta, Tagging |-> <<>>, LegalHold |-> FALSE,
               LockMode |-> ""]
        t == OpenTmpFile(f1, Join(dstBucket, metaTmpDir))
    IN  IF ~Exists(f, srcBucket) \/ ~Exists(f, dstBucket)
        THEN CopyObjectFail("NoSuchBucket", f)
        ELSE IF StatErr(f, objPath) = "ENOENT" THEN CopyObjectFail("NoSuchKey", f)
        ELSE IF StatErr(f, objPath) # OK THEN CopyObjectFail("InternalError", f)
        ELSE IF same /\ compareUserMetadata(meta, metadata)
        THEN CopyObjectFail("InvalidCopyDest", f)
        ELSE IF same /\ d.err # OK THEN CopyObjectFail("InternalError", d.fs)
        ELSE IF srcIsDir /\ ~HasSuffixSlash(dstObject)
        THEN IF IsDir(f1, dstObjdPath)
             THEN CopyObjectFail("ExistingObjectIsDirectory", f1)
             ELSE CopyObjectFail("InternalError", IF t.err = OK THEN t.fs ELSE f1)
        ELSE PutObject(f1, po)

\* the loops that store a map of attributes under the keys of the map
RECURSIVE StoreAttrs(_, _, _, _, _)
StoreAttrs(f, bucket, object, md, names) ==
    IF names = {} THEN f
    ELSE LET k == CHOOSE n \in names : TRUE
         IN  StoreAttrs(StoreAttribute(f, bucket, object, k, md[k]).fs,
                        bucket, object, md, names \ {k})

\* the hashed-key container of an object, relative to the bucket
MpObjDir(object) == Join(metaTmpMultipartDir, <<Sha256Hex(object)>>)

\* CreateMultipartUpload; uploadID is the uuid it draws
CreateMultipartUpload(f, bucket, object, md, uploadID) ==
    IF ~Exists(f, bucket) THEN [err |-> "NoSuchBucket", fs |-> f]
    ELSE IF HasSuffixSlash(object)
    THEN [err |-> "DirectoryObjectContainsData", fs |-> f]
    ELSE LET objdir == MpObjDir(object)
             tmppath == Join(bucket, objdir)
             m == MkdirAll(f, Join(tmppath, <<uploadID>>))
             s == StoreAttribute(m.fs, bucket, objdir, onameAttr, object)
             u == StoreAttrs(s.fs, bucket, Join(objdir, <<uploadID>>),
                             md, DOMAIN md)
         IN  IF m.err # OK THEN [err |-> "InternalError", fs |-> f]
             ELSE IF s.err # OK
             THEN [err |-> "InternalError",
                   fs |-> OsRemove(OsRemoveAll(m.fs, Join(tmppath, <<uploadID>>)),
                                   tmppath).fs]
             ELSE [err |-> OK, fs |-> u]

checkUploadIDExists(f, bucket, object, uploadID) ==
    LET objdir == Join(bucket, MpObjDir(object))
        e == StatErr(f, Join(objdir, <<uploadID>>))
    IN  IF e = "ENOENT" THEN "NoSuchUpload"
        ELSE IF e # OK THEN "InternalError"
        ELSE OK

\* UploadPart: hex.EncodeToString(hash.Sum(nil)) of the bytes copied
PartEtag(body) == Md5Hex(body)

UploadPart(f, bucket, object, uploadID, part, body) ==
    IF ~Exists(f, bucket) THEN [err |-> "NoSuchBucket", etag |-> NoEtag, fs |-> f]
    ELSE LET objdir == MpObjDir(object)
             e == StatErr(f, Join(bucket, Join(objdir, <<uploadID>>)))
             partPath == Join(objdir, <<uploadID, PartName(part)>>)
             t == OpenTmpFile(f, Join(bucket, objdir))
             l == Link(t.fs, bucket, partPath, body)
             etag == PartEtag(body)
             s == StoreAttribute(l.fs, bucket, partPath, etagkey, etag)
         IN  IF e = "ENOENT"
             THEN [err |-> "NoSuchUpload", etag |-> NoEtag, fs |-> f]
             ELSE IF e # OK \/ t.err # OK
             THEN [err |-> "InternalError", etag |-> NoEtag, fs |-> f]
             ELSE IF l.err # OK
             THEN [err |-> "InternalError", etag |-> NoEtag, fs |-> t.fs]
             ELSE IF s.err # OK
             THEN [err |-> "InternalError", etag |-> NoEtag, fs |-> l.fs]
             ELSE [err |-> OK, etag |-> etag, fs |-> s.fs]

UploadPartCopyFail(err, f) == [err |-> err, etag |-> NoEtag, fs |-> f]

\* copySource is CopySource split once at "/": <<srcBucket, srcObject>>, or
\* one element when it has no "/".  A source that is a directory is opened
\* and its read fails.
UploadPartCopy(f, bucket, object, uploadID, part, copySource, range) ==
    IF ~Exists(f, bucket) THEN UploadPartCopyFail("NoSuchBucket", f)
    ELSE LET objdir == MpObjDir(object)
             e == StatErr(f, Join(bucket, Join(objdir, <<uploadID>>)))
             partPath == Join(objdir, <<uploadID, PartName(part)>>)
             srcBucket == copySource[1]
             objPath == Join(srcBucket, copySource[2])
             pr == ParseRange(range)
             size == Len(f[objPath].data)
             length == IF pr.length = -1 THEN size - pr.start + 1
                       ELSE pr.length
             t == OpenTmpFile(f, Join(bucket, objdir))
             body == SectionRead(f[objPath].data, pr.start, length)
             l == Link(t.fs, bucket, partPath, body)
             etag == PartEtag(body)
             s == StoreAttribute(l.fs, bucket, partPath, etagkey, etag)
         IN  IF e = "ENOENT" THEN UploadPartCopyFail("NoSuchUpload", f)
             ELSE IF e # OK THEN UploadPartCopyFail("InternalError", f)
             ELSE IF Len(copySource) # 2
             THEN UploadPartCopyFail("InvalidCopySource", f)
             ELSE IF ~Exists(f, srcBucket)
             THEN UploadPartCopyFail("NoSuchBucket", f)
             ELSE IF StatErr(f, objPath) = "ENOENT"
             THEN UploadPartCopyFail("NoSuchKey", f)
             ELSE IF StatErr(f, objPath) # OK
             THEN UploadPartCopyFail("InternalError", f)
             ELSE IF pr.err # OK THEN UploadPartCopyFail(pr.err, f)
             ELSE IF pr.start + length > size + 1
             THEN UploadPartCopyFail("InvalidRange", f)
             ELSE IF t.err # OK THEN UploadPartCopyFail("InternalError", f)
             ELSE IF IsDir(f, objPath) \/ l.err # OK
             THEN UploadPartCopyFail("InternalError", t.fs)
             ELSE IF s.err # OK THEN UploadPartCopyFail("InternalError", l.fs)
             ELSE [err |-> OK, etag |-> etag, fs |-> s.fs]

\* an abort that removes the hashed container when it is empty and leaves
\* the upload directory where it is
AbortMultipartUploadKeepsUpload(f, bucket, object, uploadID) ==
    IF ~Exists(f, bucket) THEN [err |-> "NoSuchBucket", fs |-> f]
    ELSE LET objdir == Join(bucket, MpObjDir(object))
         IN  IF StatErr(f, Join(objdir, <<uploadID>>)) # OK
             THEN [err |-> "NoSuchUpload", fs |-> f]
             ELSE [err |-> OK, fs |-> OsRemove(f, objdir).fs]

\* an abort that removes the hashed container with all it holds
AbortMultipartUploadOfKey(f, bucket, object, uploadID) ==
    IF ~Exists(f, bucket) THEN [err |-> "NoSuchBucket", fs |-> f]
    ELSE LET objdir == Join(bucket, MpObjDir(object))
         IN  IF StatErr(f, Join(objdir, <<uploadID>>)) # OK
             THEN [err |-> "NoSuchUpload", fs |-> f]
             ELSE [err |-> OK, fs |-> OsRemoveAll(f, objdir)]

AbortMultipartUpload(f, bucket, object, uploadID) ==
    IF ~Exists(f, bucket) THEN [err |-> "NoSuchBucket", fs |-> f]
    ELSE LET objdir == Join(bucket, MpObjDir(object))
         IN  IF StatErr(f, Join(objdir, <<uploadID>>)) # OK
             THEN [err |-> "NoSuchUpload", fs |-> f]
             ELSE [err |-> OK,
                   fs |-> OsRemove(OsRemoveAll(f, Join(objdir, <<uploadID>>)),
                                   objdir).fs]

\* hex.DecodeString of an etag: the raw bytes of the digest
Md5Bytes(etag) ==
    IF Len(etag) = 2 /\ etag[1] = "md5" THEN <<"raw", etag[2]>> ELSE etag

\* backend.GetMultipartMD5(parts): the hex MD5 of the raw digests of the
\* listed etags, one after the other, then "-" and the number of parts
GetMultipartMD5(parts) ==
    Md5Hex([i \in 1..Len(parts) |-> Md5Bytes(parts[i].ETag)])
        \o <<"-", Len(parts)>>

\* a check of the part list that does not compare the sizes of the parts
RECURSIVE checkPartsAnySize(_, _, _, _, _, _)
checkPartsAnySize(f, bucket, updir, parts, i, partsize) ==
    IF i > Len(parts) THEN OK
    ELSE LET partObjPath == Join(updir, <<PartName(parts[i].PartNumber)>>)
         IN  IF StatErr(f, Join(bucket, partObjPath)) # OK THEN "InvalidPart"
             ELSE IF ReadEtag(f, bucket, partObjPath) # parts[i].ETag
             THEN "InvalidPart"
             ELSE checkPartsAnySize(f, bucket, updir, parts, i + 1, partsize)

\* CompleteMultipartUpload, "check all parts ok": the loop from part i on
RECURSIVE checkParts(_, _, _, _, _, _)
checkParts(f, bucket, updir, parts, i, partsize) ==
    IF i > Len(parts) THEN OK
    ELSE LET partObjPath == Join(updir, <<PartName(parts[i].PartNumber)>>)
             fullPartPath == Join(bucket, partObjPath)
         IN  IF StatErr(f, fullPartPath) # OK THEN "InvalidPart"
             ELSE LET size == FileSize(f, fullPartPath)
                      first == IF i = 1 THEN size ELSE partsize
                  IN  IF i < Len(parts) /\ first # size THEN "InvalidPart"
                      ELSE IF ReadEtag(f, bucket, partObjPath) # parts[i].ETag
                      THEN "InvalidPart"
                      ELSE checkParts(f, bucket, updir, parts, i + 1, first)

\* the bytes of the listed parts, last part first
RECURSIVE copyPartsReversed(_, _, _, _, _)
copyPartsReversed(f, bucket, updir, parts, i) ==
    IF i > Len(parts) THEN <<>>
    ELSE copyPartsReversed(f, bucket, updir, parts, i + 1) \o
         f[Join(bucket, Join(updir, <<PartName(parts[i].PartNumber)>>))].data

\* CompleteMultipartUpload, the io.Copy loop: the bytes of the listed parts
\* from part i on, in the order of the list
RECURSIVE copyParts(_, _, _, _, _)
copyParts(f, bucket, updir, parts, i) ==
    IF i > Len(parts) THEN <<>>
    ELSE f[Join(bucket, Join(updir, <<PartName(parts[i].PartNumber)>>))].data
         \o copyParts(f, bucket, updir, parts, i + 1)

MpFail(err, f) == [err |-> err, etag |-> NoEtag, fs |-> f]

CompleteMultipartUpload(f, bucket, object, uploadID, parts) ==
    LET up == checkUploadIDExists(f, bucket, object, uploadID)
        objdir == MpObjDir(object)
        upiddir == Join(objdir, <<uploadID>>)
        t == OpenTmpFile(f, Join(bucket, metaTmpDir))
        body == copyParts(f, bucket, upiddir, parts, 1)
        userMetaData == loadUserMetaData(t.fs, bucket, objdir)
        objname == Join(bucket, object)
        m == MkdirAll(t.fs, Dir(objname))
        l == Link(m.fs, bucket, object, body)
        u == StoreAttrs(l.fs, bucket, object, userMetaData, DOMAIN userMetaData)
        s3MD5 == GetMultipartMD5(parts)
        e == StoreAttribute(u, bucket, object, etagkey, s3MD5)
        \* "cleanup tmp dirs": upiddir is relative to the root directory
        c == OsRemove(OsRemoveAll(e.fs, upiddir), Join(bucket, objdir)).fs
    IN  IF ~Exists(f, bucket) THEN MpFail("NoSuchBucket", f)
        ELSE IF up # OK THEN MpFail(up, f)
        ELSE IF checkParts(f, bucket, upiddir, parts, 1, 0) # OK
        THEN MpFail("InvalidPart", f)
        ELSE IF t.err # OK THEN MpFail("InternalError", f)
        ELSE IF m.err # OK THEN MpFail("InternalError", t.fs)
        ELSE IF l.err # OK THEN MpFail("InternalError", m.fs)
        ELSE IF e.err # OK THEN MpFail("InternalError", OsRemove(u, objname).fs)
        ELSE [err |-> OK, etag |-> s3MD5, fs |-> c]

\* sort.Slice by part number of a set of part numbers
RECURSIVE SortedParts(_)
SortedParts(S) ==
    IF S = {} THEN <<>>
    ELSE LET n == CHOOSE x \in S : \A y \in S : x <= y
         IN  <<n>> \o SortedParts(S \ {n})

\* ListParts; maxParts = 0 when the request has no max-parts
ListParts(f, bucket, object, uploadID, partNumberMarker, maxParts) ==
    LET up == checkUploadIDExists(f, bucket, object, uploadID)
        objdir == MpObjDir(object)
        tmpdir == Join(bucket, objdir)
        ents == Children(f, Join(tmpdir, <<uploadID>>))
        pns == {Atoi(e[Len(e)]) : e \in ents} \ (0..partNumberMarker)
        part(pn) == [PartNumber |-> pn,
                     ETag |-> ReadEtag(f, bucket,
                                       Join(objdir, <<uploadID, PartName(pn)>>)),
                     Size |-> FileSize(f, Join(tmpdir, <<uploadID, PartName(pn)>>))]
        all == SortedParts(pns)
        parts == IF maxParts > 0 /\ Len(all) > maxParts
                 THEN SubSeq(all, 1, maxParts) ELSE all
    IN  IF ~Exists(f, bucket)
        THEN [err |-> "NoSuchBucket", Parts |-> <<>>, IsTruncated |-> FALSE,
              NextPartNumberMarker |-> 0]
        ELSE IF up # OK
        THEN [err |-> up, Parts |-> <<>>, IsTruncated |-> FALSE,
              NextPartNumberMarker |-> 0]
        ELSE [err |-> OK,
              Parts |-> [i \in 1..Len(parts) |-> part(parts[i])],
              IsTruncated |-> Len(all) # Len(parts),
              NextPartNumberMarker |->
                  IF parts = <<>> THEN 0 ELSE parts[Len(parts)]]

\* the part-number-marker of a request: "" when there is none, the decimal
\* digits of a number, or a string strconv.Atoi refuses
NoNumber == "x"

MarkerStrings == {"", NoNumber} \cup {ToString(n) : n \in 0..MaxPart}

\* strconv.Atoi(stringMarker)
AtoiMarker(stringMarker) ==
    IF \E n \in 0..MaxPart : ToString(n) = stringMarker
    THEN [err |-> OK, n |-> CHOOSE n \in 0..MaxPart : ToString(n) = stringMarker]
    ELSE [err |-> "InvalidPartNumberMarker", n |-> 0]

\* a ListParts that lists from the first part whatever the marker
ListPartsInputNoMarker(f, bucket, object, uploadID, stringMarker, maxParts) ==
    IF stringMarker # "" /\ AtoiMarker(stringMarker).err # OK
    THEN [err |-> "InvalidPartNumberMarker", Parts |-> <<>>,
          IsTruncated |-> FALSE, NextPartNumberMarker |-> 0]
    ELSE ListParts(f, bucket, object, uploadID, 0, maxParts)

\* ListParts from its input: the marker is parsed before anything is read
ListPartsInput(f, bucket, object, uploadID, stringMarker, maxParts) ==
    LET a == AtoiMarker(stringMarker)
        partNumberMarker == IF stringMarker # "" THEN a.n ELSE 0
    IN  IF stringMarker # "" /\ a.err # OK
        THEN [err |-> a.err, Parts |-> <<>>, IsTruncated |-> FALSE,
              NextPartNumberMarker |-> 0]
        ELSE ListParts(f, bucket, object, uploadID, partNumberMarker, maxParts)

\* the upload ids uuid.New can draw, in the order of their names
UploadIds == <<"u1", "u2">>

\* the keys of multipart uploads, in ascending order
MpKeys == <<(<<"k">>)>>

SeqRange(q) == {q[i] : i \in 1..Len(q)}

\* ListMultipartUploads, the loop that cuts the page: from upload i on
RECURSIVE pageUploads(_, _, _, _)
pageUploads(uploads, i, resultUpds, maxUploads) ==
    IF i > Len(uploads) \/ maxUploads = 0
    THEN [err |-> OK, Uploads |-> resultUpds, IsTruncated |-> FALSE]
    ELSE IF i # Len(uploads) /\ Len(resultUpds) = maxUploads
    THEN [err |-> OK, Uploads |-> resultUpds, IsTruncated |-> TRUE]
    ELSE pageUploads(uploads, i + 1, Append(resultUpds, uploads[i]), maxUploads)

\* the uploads of the keys from key i on: for each hashed container that
\* carries its object name, one entry per upload directory
RECURSIVE uploadsFrom(_, _, _)
uploadsFrom(f, bucket, i) ==
    IF i > Len(MpKeys) THEN <<>>
    ELSE LET o == Join(bucket, MpObjDir(MpKeys[i]))
             r == RetrieveAttribute(f, bucket, MpObjDir(MpKeys[i]), onameAttr)
             upids == SelectSeq(UploadIds, LAMBDA id : IsDir(f, Join(o, <<id>>)))
             ups == IF IsDir(f, o) /\ r.err = OK
                    THEN [j \in 1..Len(upids) |->
                             [Key |-> r.val, UploadID |-> upids[j]]]
                    ELSE <<>>
         IN  ups \o uploadsFrom(f, bucket, i + 1)

\* ListMultipartUploads without prefix and markers; maxUploads = 0 when the
\* request has no max-uploads
ListMultipartUploads(f, bucket, maxUploads) ==
    IF ~Exists(f, bucket)
    THEN [err |-> "NoSuchBucket", Uploads |-> <<>>, IsTruncated |-> FALSE]
    ELSE pageUploads(uploadsFrom(f, bucket, 1), 1, <<>>, maxUploads)

\* ListMultipartUploads with prefix and markers.  os.ReadDir returns the
\* hashed containers in the order of their names, the hex SHA-256 of the
\* keys: 2e7d... for "c", 3e23... for "b", ca97... for "a".
HashedOrder == <<(<<"c">>), (<<"b">>), (<<"a">>)>>

\* the upload ids in the order of their names
LmuIds == <<"u1", "u2", "u3", "u4">>

\* uploadID < uploadIDMarker for two of these strings
IdLess(id, marker) ==
    \E i, j \in 1..Len(LmuIds) : LmuIds[i] = id /\ LmuIds[j] = marker /\ i < j

\* strings.HasPrefix(objectName, *mpu.Prefix) for keys of one letter; no
\* prefix is <<>>
LmuHasPrefix(objectName, prefix) == prefix = <<>> \/ prefix = objectName

\* the first loop: the uploads of the containers from container i on that
\* carry their object name and pass the prefix, in the order they are read
RECURSIVE lmuUploadsFrom(_, _, _, _)
lmuUploadsFrom(f, bucket, prefix, i) ==
    IF i > Len(HashedOrder) THEN <<>>
    ELSE LET objdir == MpObjDir(HashedOrder[i])
             o == Join(bucket, objdir)
             r == RetrieveAttribute(f, bucket, objdir, onameAttr)
             upids == SelectSeq(LmuIds, LAMBDA id : IsDir(f, Join(o, <<id>>)))
             ups == IF IsDir(f, o) /\ r.err = OK /\ LmuHasPrefix(r.val, prefix)
                    THEN [j \in 1..Len(upids) |->
                             [Key |-> r.val, UploadID |-> upids[j]]]
                    ELSE <<>>
         IN  ups \o lmuUploadsFrom(f, bucket, prefix, i + 1)

\* sort.SliceStable(uploads, by Key): the first of the least keys, then the
\* rest
RECURSIVE SortStableByKey(_)
SortStableByKey(uploads) ==
    IF uploads = <<>> THEN <<>>
    ELSE LET m == CHOOSE i \in 1..Len(uploads) :
                     /\ \A j \in 1..Len(uploads) :
                            ~KeyLess(uploads[j].Key, uploads[i].Key)
                     /\ \A j \in 1..(i - 1) : uploads[j].Key # uploads[i].Key
         IN  <<uploads[m]>> \o
             SortStableByKey(SubSeq(uploads, 1, m - 1) \o
                             SubSeq(uploads, m + 1, Len(uploads)))

LmuResult(err, uploads, truncated, nextKey, nextId) ==
    [err |-> err, Uploads |-> uploads, IsTruncated |-> truncated,
     NextKeyMarker |-> nextKey, NextUploadIDMarker |-> nextId]

\* the second loop, from index i of the sorted uploads on; i counts from 0
\* as in the source, and resultUpds[i-1] is element i of the sequence
RECURSIVE lmuPage(_, _, _, _, _, _)
lmuPage(uploads, i, resultUpds, keyMarker, uploadIDMarker, maxUploads) ==
    IF i >= Len(uploads) \/ maxUploads = 0
    THEN LmuResult(OK, resultUpds, FALSE, <<>>, "")
    ELSE IF /\ keyMarker # <<>> /\ uploadIDMarker # ""
            /\ IdLess(uploads[i + 1].UploadID, uploadIDMarker)
    THEN lmuPage(uploads, i + 1, resultUpds, keyMarker, uploadIDMarker, maxUploads)
    ELSE IF i # Len(uploads) - 1 /\ Len(resultUpds) = maxUploads
    THEN IF i - 1 < 0 \/ i - 1 >= Len(resultUpds)
         THEN LmuResult("IndexOutOfRange", <<>>, FALSE, <<>>, "")
         ELSE LmuResult(OK, resultUpds, TRUE, resultUpds[i].Key,
                        resultUpds[i].UploadID)
    ELSE lmuPage(uploads, i + 1, Append(resultUpds, uploads[i + 1]),
                 keyMarker, uploadIDMarker, maxUploads)

\* ListMultipartUploads from its input; no key marker is <<>>, no upload id
\* marker is "", maxUploads is 0 when the request has none
ListMultipartUploadsInput(f, bucket, prefix, keyMarker, uploadIDMarker, maxUploads) ==
    LET uploads == lmuUploadsFrom(f, bucket, prefix, 1)
        uploadIdMarkerFound ==
            \E i \in 1..Len(uploads) : uploads[i].UploadID = uploadIDMarker
        keyMarkerInd ==
            IF \E i \in 1..Len(uploads) : uploads[i].Key = keyMarker
            THEN (CHOOSE i \in 1..Len(uploads) :
                     /\ uploads[i].Key = keyMarker
                     /\ \A j \in 1..(i - 1) : uploads[j].Key # keyMarker) - 1
            ELSE -1
    IN  IF ~Exists(f, bucket)
        THEN LmuResult("NoSuchBucket", <<>>, FALSE, <<>>, "")
        ELSE IF \/ uploadIDMarker # "" /\ ~uploadIdMarkerFound
                \/ keyMarker # <<>> /\ keyMarkerInd = -1
        THEN LmuResult(OK, <<>>, FALSE, <<>>, "")
        ELSE lmuPage(SortStableByKey(uploads), keyMarkerInd + 1, <<>>,
                     keyMarker, uploadIDMarker, maxUploads)

-----------------------------------------------------------------------------
(* SpecMp: one multipart upload of the key "k" in a bucket without object  *)
(* lock.  uuid.New never draws the same id twice: `used` holds the ids     *)
(* drawn so far.                                                           *)

MpKey == <<"k">>

\* the part lists of a complete request: the parts 1..n
PartLists == {[i \in 1..n |-> i] : n \in 1..MaxPart}

\* an etag that no part has
WrongEtag == Md5Hex(<<0>>)

\* the part list of a request: the etags are the ones the parts have now,
\* except at position bad
CompleteParts(f, uploadID, list, bad) ==
    [i \in 1..Len(list) |->
        [PartNumber |-> list[i],
         ETag |-> IF i = bad THEN WrongEtag
                  ELSE ReadEtag(f, Bucket,
                                Join(MpObjDir(MpKey),
                                     <<uploadID, PartName(list[i])>>))]]

CallCreateMultipartUpload(mds, ids) ==
    \E md \in mds, id \in ids \ used :
        LET r == CreateMultipartUpload(fs, Bucket, MpKey, md, id)
        IN  /\ fs' = r.fs
            /\ used' = IF r.err = OK THEN used \cup {id} ELSE used
            /\ resp' = Resp("CreateMultipartUpload", MpKey, r.err, NoEtag,
                            [UploadId |-> id], 0)
            /\ UNCHANGED_conc

CallUploadPart(ids, bodies) ==
    \E id \in ids, part \in 1..MaxPart, body \in bodies :
        LET r == UploadPart(fs, Bucket, MpKey, id, part, body)
        IN  /\ fs' = r.fs
            /\ resp' = Resp("UploadPart", MpKey, r.err, r.etag,
                            [UploadId |-> id, PartNumber |-> part], 0)
            /\ UNCHANGED used /\ UNCHANGED_conc

CallCompleteMultipartUpload(ids) ==
    \E id \in ids, list \in PartLists :
        \E bad \in 0..Len(list) :
            LET parts == CompleteParts(fs, id, list, bad)
                r == CompleteMultipartUpload(fs, Bucket, MpKey, id, parts)
            IN  /\ fs' = r.fs
                /\ resp' = Resp("CompleteMultipartUpload", MpKey, r.err, r.etag,
                                [UploadId |-> id, Parts |-> parts], 0)
                /\ UNCHANGED used /\ UNCHANGED_conc

CallAbortMultipartUpload(ids) ==
    \E id \in ids :
        LET r == AbortMultipartUpload(fs, Bucket, MpKey, id)
        IN  /\ fs' = r.fs
            /\ resp' = Resp("AbortMultipartUpload", MpKey, r.err, NoEtag,
                            [UploadId |-> id], 0)
            /\ UNCHANGED used /\ UNCHANGED_conc

CallListParts(ids, maxes) ==
    \E id \in ids, maxParts \in maxes :
        LET r == ListParts(fs, Bucket, MpKey, id, 0, maxParts)
        IN  /\ resp' = Resp("ListParts", MpKey, r.err, NoEtag,
                            [UploadId |-> id, Parts |-> r.Parts,
                             IsTruncated |-> r.IsTruncated], 0)
            /\ UNCHANGED <<fs, used>> /\ UNCHANGED_conc

CallListMultipartUploads(maxes) ==
    \E maxUploads \in maxes :
        LET r == ListMultipartUploads(fs, Bucket, maxUploads)
        IN  /\ resp' = Resp("ListMultipartUploads", <<>>, r.err, NoEtag,
                            [Uploads |-> r.Uploads,
                             IsTruncated |-> r.IsTruncated], 0)
            /\ UNCHANGED <<fs, used>> /\ UNCHANGED_conc

\* the upload of SpecMp
MpIds == {UploadIds[1]}

\* the bodies of its parts: two sizes, and bytes that tell the parts apart
MpBodies == {<<1>>, <<1, MaxByte>>}

\* aborts name the upload of SpecMp or an id that no upload has
NextMp ==
    \/ CallCreateBucket({FALSE})
    \/ CallCreateMultipartUpload({NoMeta}, MpIds)
    \/ CallUploadPart(MpIds, MpBodies)
    \/ CallCompleteMultipartUpload(MpIds)
    \/ CallAbortMultipartUpload(SeqRange(UploadIds))
    \/ CallListParts(MpIds, {0})
    \/ CallListMultipartUploads({1})

SpecMp == Init /\ [][NextMp]_vars

-----------------------------------------------------------------------------
(* SpecList: the listings of one bucket without object lock that holds the *)
(* files "b", "k" and "a/k", the directory-object "a/" and one multipart   *)
(* upload of "k".  A PutObject of "b" asks for a legal hold, which the     *)
(* bucket refuses after the link: "b" is a file without an etag.           *)

\* the strings of a listing request: prefixes, markers and tokens
ListKeys == {<<>>, <<"a", "k">>, metaTmpDir, metaTmpDir \o <<"">>}

CallListObjects(prefixes, markers, delims, maxes) ==
    \E prefix \in prefixes, marker \in markers, delim \in delims,
       maxkeys \in maxes :
        LET r == ListObjects(fs, Bucket, prefix, marker, delim, maxkeys)
        IN  /\ resp' = Resp("ListObjects", prefix, r.err, NoEtag,
                            r @@ [Delimiter |-> delim], maxkeys)
            /\ UNCHANGED <<fs, used>> /\ UNCHANGED_conc

\* a first page, or the page after the one the last call returned; with or
\* without StartAfter
CallListObjectsV2(startAfters, maxes) ==
    \E startAfter \in startAfters, maxkeys \in maxes,
       token \in IF resp.op = "ListObjectsV2"
                 THEN {<<>>, <<resp.data.NextMarker>>} ELSE {<<>>} :
        LET r == ListObjectsV2(fs, Bucket, <<>>, token, startAfter, "", maxkeys)
        IN  /\ resp' = Resp("ListObjectsV2", <<>>, r.err, NoEtag,
                            r @@ [ContinuationToken |-> token,
                                  StartAfter |-> startAfter], maxkeys)
            /\ UNCHANGED <<fs, used>> /\ UNCHANGED_conc

NextList ==
    \/ CallCreateBucket({FALSE})
    \/ CallPutObject({<<"k">>, <<"a", "k">>}, {<<1>>}, {FALSE})
    \/ CallPutObject({<<"b">>}, {<<1>>}, {TRUE})
    \/ CallPutObject(DirKeys, {<<>>}, {FALSE})
    \/ CallDeleteObject({<<"k">>, <<"a", "k">>, <<"b">>} \cup DirKeys)
    \/ CallCreateMultipartUpload({NoMeta}, MpIds)
    \/ CallUploadPart(MpIds, {<<1>>})
    \/ CallListObjects({<<>>}, {<<>>, <<"a", "k">>}, {"", "/"}, {MaxList})
    \/ CallListObjectsV2({<<>>, <<(<<"a", "k">>)>>, <<(<<"b">>)>>}, {1})

SpecList == Init /\ [][NextList]_vars

-----------------------------------------------------------------------------
(* SpecMeta: one multipart upload of the key "k" that is created with or   *)
(* without user metadata, has parts of one body, is completed and read.    *)

\* the Metadata of a CreateMultipartUpload request: none, one entry under
\* its bare name, one entry under its name with the header prefix
MetaInputs ==
    {NoMeta} \cup {[k \in {n} |-> "v"] :
                      n \in MetaNames \cup {metaHdr \o "." \o m : m \in MetaNames}}

NextMeta ==
    \/ CallCreateBucket({FALSE})
    \/ CallCreateMultipartUpload(MetaInputs, MpIds)
    \/ CallUploadPart(MpIds, {<<1>>})
    \/ CallCompleteMultipartUpload(MpIds)
    \/ CallListParts(MpIds, {0})
    \/ CallHeadObject({MpKey})
    \/ CallGetObject({MpKey})

SpecMeta == Init /\ [][NextMeta]_vars

-----------------------------------------------------------------------------
(* SpecBucket: the life of one bucket, created with or without object      *)
(* lock, that holds the file "k", the directory-object "a/", a file put    *)
(* under the key ".sgwtmp/x" and one multipart upload of "k".              *)

BucketFileKeys == {<<"k">>, metaTmpDir \o <<"x">>}

\* CreateBucket with the acl of one of two owners
CallCreateBucketAs(owners, locks) ==
    \E owner \in owners, lock \in locks :
        LET r == CreateBucket(fs, Bucket, [Owner |-> owner], lock)
        IN  /\ fs' = r.fs
            /\ resp' = Resp("CreateBucket", <<>>, r.err, NoEtag,
                            [Owner |-> owner, Lock |-> lock], 0)
            /\ UNCHANGED used /\ UNCHANGED_conc

NextBucket ==
    \/ CallCreateBucketAs({"root", "user"}, BOOLEAN)
    \/ CallDeleteBucket
    \/ CallHeadBucket
    \/ CallPutObject(BucketFileKeys, {<<1>>}, {FALSE})
    \/ CallPutObject(DirKeys, {<<>>}, {FALSE})
    \/ CallDeleteObject(BucketFileKeys \cup DirKeys)
    \/ CallCreateMultipartUpload({NoMeta}, MpIds)
    \/ CallUploadPart(MpIds, {<<1>>})
    \/ CallAbortMultipartUpload(MpIds)

SpecBucket == Init /\ [][NextBucket]_vars

-----------------------------------------------------------------------------
(* SpecRange: ranges of the file "k" of 0..MaxSize bytes, read by GetObject *)
(* and copied into part 1 of a multipart upload of "k" by UploadPartCopy.  *)
(* A range is "bytes=<start>-<end>", or "bytes=<start>-" where end is -1;  *)
(* starts and ends run to one byte past the largest object.                *)

CallGetObjectRange(keys, ranges) ==
    \E key \in keys, range \in ranges :
        LET r == GetObject(fs, Bucket, key, range)
        IN  /\ resp' = Resp("GetObject", key, r.err, r.etag,
                            [Range |-> range, Body |-> r.data], r.length)
            /\ UNCHANGED <<fs, used>> /\ UNCHANGED_conc

CallUploadPartCopy(ids, sources, ranges) ==
    \E id \in ids, copySource \in sources, range \in ranges :
        LET r == UploadPartCopy(fs, Bucket, MpKey, id, 1, copySource, range)
        IN  /\ fs' = r.fs
            /\ resp' = Resp("UploadPartCopy", MpKey, r.err, r.etag,
                            [UploadId |-> id, CopySource |-> copySource,
                             Range |-> range], 0)
            /\ UNCHANGED used /\ UNCHANGED_conc

NextRange ==
    \/ CallCreateBucket({FALSE})
    \/ CallPutObject({MpKey}, {[i \in 1..n |-> i] : n \in 0..MaxSize}, {FALSE})
    \/ CallDeleteObject({MpKey})
    \/ CallCreateMultipartUpload({NoMeta}, MpIds)
    \/ CallGetObjectRange({MpKey},
                          [start : 0..MaxSize + 1, end : -1..MaxSize + 1])
    \/ CallUploadPartCopy(MpIds, {<<Bucket, MpKey>>, <<Bucket>>},
                          [start : 0..MaxSize + 1, end : -1..MaxSize + 1])

SpecRange == Init /\ [][NextRange]_vars

-----------------------------------------------------------------------------
(* SpecPut: PutObject where files and directories are in each other's way. *)
(* The keys are "a", "a/k", "a/k/x" and "a/", each with an empty or a      *)
(* one-byte body.                                                          *)

NextPut ==
    \/ CallCreateBucket({FALSE})
    \/ CallPutObject({<<"a">>, <<"a", "k">>, <<"a", "k", "x">>, <<"a", "">>},
                     {<<>>, <<1>>}, {FALSE})
    \/ CallDeleteObject({<<"a">>, <<"a", "k">>, <<"a", "k", "x">>, <<"a", "">>})

SpecPut == Init /\ [][NextPut]_vars

-----------------------------------------------------------------------------
(* SpecLock: object lock on one bucket, created with or without it.  The   *)
(* objects are "k" and "a/k"; the lock calls name "k" and "a", the parent  *)
(* directory of "a/k".  A lock configuration is the record that            *)
(* PutObjectLockConfiguration is given: Enabled and the default retention. *)

NextLock ==
    \/ CallCreateBucket(BOOLEAN)
    \/ CallDeleteBucket
    \/ CallPutObject({<<"k">>, <<"a", "k">>}, {<<1>>}, BOOLEAN)
    \/ CallDeleteObject({<<"k">>, <<"a", "k">>})
    \/ \E config \in [Enabled : BOOLEAN, DefaultRetention : {"", "GOVERNANCE"}] :
           LET r == PutObjectLockConfiguration(fs, Bucket, config)
           IN  /\ fs' = r.fs
               /\ resp' = Resp("PutObjectLockConfiguration", <<>>, r.err, NoEtag,
                               config, 0)
               /\ UNCHANGED used /\ UNCHANGED_conc
    \/ LET r == GetObjectLockConfiguration(fs, Bucket)
       IN  /\ resp' = Resp("GetObjectLockConfiguration", <<>>, r.err, NoEtag,
                           r.val, 0)
           /\ UNCHANGED <<fs, used>> /\ UNCHANGED_conc
    \/ \E key \in {<<"k">>, <<"a">>}, status \in BOOLEAN :
           LET r == PutObjectLegalHold(fs, Bucket, key, status)
           IN  /\ fs' = r.fs
               /\ resp' = Resp("PutObjectLegalHold", key, r.err, NoEtag, status, 0)
               /\ UNCHANGED used /\ UNCHANGED_conc
    \/ \E key \in {<<"k">>, <<"a">>} :
           LET r == GetObjectLegalHold(fs, Bucket, key)
           IN  /\ resp' = Resp("GetObjectLegalHold", key, r.err, NoEtag, r.val, 0)
               /\ UNCHANGED <<fs, used>> /\ UNCHANGED_conc
    \/ \E key \in {<<"k">>, <<"a">>},
          retention \in {[Mode |-> "GOVERNANCE"], [Mode |-> "COMPLIANCE"]} :
           LET r == PutObjectRetention(fs, Bucket, key, retention)
           IN  /\ fs' = r.fs
               /\ resp' = Resp("PutObjectRetention", key, r.err, NoEtag,
                               retention, 0)
               /\ UNCHANGED used /\ UNCHANGED_conc
    \/ \E key \in {<<"k">>, <<"a">>} :
           LET r == GetObjectRetention(fs, Bucket, key)
           IN  /\ resp' = Resp("GetObjectRetention", key, r.err, NoEtag, r.val, 0)
               /\ UNCHANGED <<fs, used>> /\ UNCHANGED_conc

SpecLock == Init /\ [][NextLock]_vars

-----------------------------------------------------------------------------
(* SpecBlob: the tagging and the policy of one bucket, made with or        *)
(* without object lock, that holds the object "k" or not.  The tags are    *)
(* nil, the empty map and two maps of one name; the policies are nil, the  *)
(* empty bytes and two documents of one byte.                              *)

NextBlob ==
    \/ CallCreateBucket(BOOLEAN)
    \/ CallDeleteBucket
    \/ CallPutObject({<<"k">>}, {<<1>>}, {FALSE})
    \/ \E tags \in {<<>>, <<(<<>>)>>, <<[a |-> "1"]>>, <<[a |-> "2"]>>} :
           LET r == PutBucketTagging(fs, Bucket, tags)
           IN  /\ fs' = r.fs
               /\ resp' = Resp("PutBucketTagging", <<>>, r.err, NoEtag, tags, 0)
               /\ UNCHANGED used /\ UNCHANGED_conc
    \/ LET r == GetBucketTagging(fs, Bucket)
       IN  /\ resp' = Resp("GetBucketTagging", <<>>, r.err, NoEtag, r.val, 0)
           /\ UNCHANGED <<fs, used>> /\ UNCHANGED_conc
    \/ \E policy \in {<<>>, <<(<<>>)>>, <<(<<1>>)>>, <<(<<2>>)>>} :
           LET r == PutBucketPolicy(fs, Bucket, policy)
           IN  /\ fs' = r.fs
               /\ resp' = Resp("PutBucketPolicy", <<>>, r.err, NoEtag, policy, 0)
               /\ UNCHANGED used /\ UNCHANGED_conc
    \/ LET r == GetBucketPolicy(fs, Bucket)
       IN  /\ resp' = Resp("GetBucketPolicy", <<>>, r.err, NoEtag, r.val, 0)
           /\ UNCHANGED <<fs, used>> /\ UNCHANGED_conc

SpecBlob == Init /\ [][NextBlob]_vars

-----------------------------------------------------------------------------
(* SpecOwner: the buckets "a", "b" and "c" of the accounts "root", "user"  *)
(* and "other", with or without a grant, their owners changed and listed.  *)

NextOwner ==
    \/ \E bucket \in {<<"a">>, <<"b">>, <<"c">>}, owner \in {"root", "user"},
          grantees \in {<<>>, <<"other">>} :
           LET r == CreateBucket(fs, bucket,
                                 [Owner |-> owner, Grantees |-> grantees], FALSE)
           IN  /\ fs' = r.fs
               /\ resp' = Resp("CreateBucket", bucket, r.err, NoEtag, owner, 0)
               /\ UNCHANGED used /\ UNCHANGED_conc
    \/ \E bucket \in {<<"a">>, <<"b">>, <<"c">>} :
           LET r == DeleteBucket(fs, bucket)
           IN  /\ fs' = r.fs
               /\ resp' = Resp("DeleteBucket", bucket, r.err, NoEtag, <<>>, 0)
               /\ UNCHANGED used /\ UNCHANGED_conc
    \/ \E bucket \in {<<"a">>, <<"b">>, <<"c">>},
          newOwner \in {"root", "user", "other"} :
           LET r == ChangeBucketOwner(fs, bucket, newOwner)
           IN  /\ fs' = r.fs
               /\ resp' = Resp("ChangeBucketOwner", bucket, r.err, NoEtag,
                               newOwner, 0)
               /\ UNCHANGED used /\ UNCHANGED_conc
    \/ \E owner \in {"root", "user", "other"}, isAdmin \in BOOLEAN :
           LET r == ListBuckets(fs, owner, isAdmin)
           IN  /\ resp' = Resp("ListBuckets", <<>>, r.err, NoEtag,
                               [Owner |-> owner, IsAdmin |-> isAdmin,
                                Buckets |-> r.Buckets], 0)
               /\ UNCHANGED <<fs, used>> /\ UNCHANGED_conc

SpecOwner == Init /\ [][NextOwner]_vars

\* CopyObject between two buckets: the objects, the metadata of a request
\* and the size a directory may report
CopyBuckets == {<<"b">>, <<"c">>}

PutMetas == {NoMeta, [x |-> "v"]}

CopyMetas == {NoMeta, [x |-> "v"], [x |-> "w"]}

\* the sources and the destinations of a CopyObject, <<bucket, key>>
CopySources ==
    {<<(<<"b">>), (<<"k">>)>>, <<(<<"b">>), (<<"d", "">>)>>,
     <<(<<"b">>), (<<"m">>)>>, <<(<<"c">>), (<<"k">>)>>}

CopyDests ==
    {<<(<<"b">>), (<<"k">>)>>, <<(<<"b">>), (<<"d", "">>)>>,
     <<(<<"c">>), (<<"k">>)>>}

NextCopy ==
    \/ \E bucket \in CopyBuckets :
           LET r == CreateBucket(fs, bucket, [Owner |-> "root"], FALSE)
           IN  /\ fs' = r.fs
               /\ resp' = Resp("CreateBucket", bucket, r.err, NoEtag, <<>>, 0)
               /\ UNCHANGED used /\ UNCHANGED_conc
    \/ \E key \in {<<"k">>, <<"d", "">>}, body \in {<<>>, <<1>>},
          md \in PutMetas :
           LET po == [PutInput(key, body, FALSE) EXCEPT !.Metadata = md]
               r == PutObject(fs, po)
           IN  /\ fs' = r.fs
               /\ resp' = Resp("PutObject", key, r.err, r.etag, <<>>, 0)
               /\ UNCHANGED used /\ UNCHANGED_conc
    \/ \E src \in CopySources, dst \in CopyDests, metadata \in CopyMetas,
          dirSize \in {0, 1} :
           LET r == CopyObject(fs, src[1], src[2], dst[1], dst[2],
                               metadata, dirSize)
           IN  /\ fs' = r.fs
               /\ resp' = Resp("CopyObject", dst[2], r.err, r.etag,
                               [SrcBucket |-> src[1], SrcObject |-> src[2],
                                DstBucket |-> dst[1], Metadata |-> metadata], 0)
               /\ UNCHANGED used /\ UNCHANGED_conc

SpecCopy == Init /\ [][NextCopy]_vars

-----------------------------------------------------------------------------
(* SpecPart: UploadPart calls on part 1 of one upload that run             *)
(* concurrently.  A call is cut where it makes its changes visible: after  *)
(* the temp file is written (posix.go 939-976), after the link (978-983)   *)
(* and at its return, after the etag is stored (985-993).                  *)

ConcUpload == "u1"

\* part 1 of the upload, relative to the bucket
ConcPartPath == Join(MpObjDir(MpKey), <<ConcUpload, PartName(1)>>)

\* UploadPart up to the copy of the body into the temp file
PartOpen(w) ==
    \E body \in {<<1>>, <<2>>} :
        LET t == OpenTmpFile(fs, Join(Bucket, MpObjDir(MpKey)))
        IN  /\ wpc[w] = "idle"
            /\ Exists(fs, Bucket)
            /\ checkUploadIDExists(fs, Bucket, MpKey, ConcUpload) = OK
            /\ t.err = OK
            /\ fs' = t.fs
            /\ wpc' = [wpc EXCEPT ![w] = "opened"]
            /\ wbody' = [wbody EXCEPT ![w] = body]
            /\ UNCHANGED <<resp, used, rpc, rdata, linked, obs, tmp>>

\* UploadPart: f.link(); an error of the link is the return of the call
PartLink(w) ==
    LET l == Link(fs, Bucket, ConcPartPath, wbody[w])
    IN  /\ wpc[w] = "opened"
        /\ fs' = l.fs
        /\ wpc' = [wpc EXCEPT ![w] = IF l.err = OK THEN "linked" ELSE "idle"]
        /\ wbody' = [wbody EXCEPT ![w] = IF l.err = OK THEN wbody[w] ELSE <<>>]
        /\ UNCHANGED <<resp, used, rpc, rdata, linked, obs, tmp>>

\* UploadPart: the etag attribute and the return
PartStore(w) ==
    LET etag == PartEtag(wbody[w])
        r == StoreAttribute(fs, Bucket, ConcPartPath, etagkey, etag)
    IN  /\ wpc[w] = "linked"
        /\ fs' = r.fs
        /\ wpc' = [wpc EXCEPT ![w] = "idle"]
        /\ wbody' = [wbody EXCEPT ![w] = <<>>]
        /\ UNCHANGED <<resp, used, rpc, rdata, linked, obs, tmp>>

NextPart ==
    \/ CallCreateMultipartUpload({NoMeta}, {ConcUpload})
    \/ \E id \in {ConcUpload, "u2"}, part \in {1, 2}, body \in {<<1>>, <<2>>} :
           LET r == UploadPart(fs, Bucket, MpKey, id, part, body)
           IN  /\ fs' = r.fs
               /\ resp' = Resp("UploadPart", MpKey, r.err, r.etag,
                               [UploadId |-> id, PartNumber |-> part,
                                Body |-> body], 0)
               /\ UNCHANGED used /\ UNCHANGED_conc
    \/ \E w \in Writers : PartOpen(w)
    \/ \E w \in Writers : PartLink(w)
    \/ \E w \in Writers : PartStore(w)
    \/ CallListParts({ConcUpload}, {0})
    \/ LET parts == CompleteParts(fs, ConcUpload, <<1>>, 0)
           r == CompleteMultipartUpload(fs, Bucket, MpKey, ConcUpload, parts)
       IN  /\ fs' = r.fs
           /\ resp' = Resp("CompleteMultipartUpload", MpKey, r.err, r.etag,
                           [UploadId |-> ConcUpload, Parts |-> parts], 0)
           /\ UNCHANGED used /\ UNCHANGED_conc

SpecPart == InitConc /\ [][NextPart]_vars

-----------------------------------------------------------------------------
(* SpecParts: the parts of the uploads of one key and their listing *)

NextParts ==
    \/ CallCreateMultipartUpload({NoMeta}, {"u1"})
    \/ \E part \in 1..MaxPart :
           LET r == UploadPart(fs, Bucket, MpKey, "u1", part, <<1>>)
           IN  /\ fs' = r.fs
               /\ resp' = Resp("UploadPart", MpKey, r.err, r.etag,
                               [UploadId |-> "u1", PartNumber |-> part], 0)
               /\ UNCHANGED used /\ UNCHANGED_conc
    \/ CallAbortMultipartUpload({"u1"})
    \/ \E id \in {"u1", "u2"}, stringMarker \in MarkerStrings,
          maxParts \in 0..MaxList :
           LET r == ListPartsInput(fs, Bucket, MpKey, id, stringMarker, maxParts)
           IN  /\ resp' = Resp("ListParts", MpKey, r.err, NoEtag,
                               [UploadId |-> id, PartNumberMarker |-> stringMarker,
                                MaxParts |-> maxParts, Parts |-> r.Parts,
                                IsTruncated |-> r.IsTruncated,
                                NextPartNumberMarker |-> r.NextPartNumberMarker],
                               0)
               /\ UNCHANGED <<fs, used>> /\ UNCHANGED_conc

SpecParts == InitConc /\ [][NextParts]_vars

-----------------------------------------------------------------------------
(* SpecUploads: the uploads of the keys "a" and "b" of one bucket and their *)
(* listing.  uuid.New never draws the same id twice.                        *)

LmuKeys == {<<"a">>, <<"b">>}

NextUploads ==
    \/ \E key \in LmuKeys, id \in SeqRange(LmuIds) \ used :
           LET r == CreateMultipartUpload(fs, Bucket, key, NoMeta, id)
           IN  /\ fs' = r.fs
               /\ used' = IF r.err = OK THEN used \cup {id} ELSE used
               /\ resp' = Resp("CreateMultipartUpload", key, r.err, NoEtag,
                               [UploadId |-> id], 0)
               /\ UNCHANGED_conc
    \/ \E key \in LmuKeys, id \in used :
           LET r == AbortMultipartUpload(fs, Bucket, key, id)
           IN  /\ fs' = r.fs
               /\ resp' = Resp("AbortMultipartUpload", key, r.err, NoEtag,
                               [UploadId |-> id], 0)
               /\ UNCHANGED used /\ UNCHANGED_conc
    \/ \E prefix \in {<<>>, <<"a">>}, keyMarker \in {<<>>, <<"a">>, <<"b">>},
          uploadIDMarker \in {"", "u2"}, maxUploads \in 0..2 :
           LET r == ListMultipartUploadsInput(fs, Bucket, prefix, keyMarker,
                                              uploadIDMarker, maxUploads)
           IN  /\ resp' = Resp("ListMultipartUploads", <<>>, r.err, NoEtag,
                               [Prefix |-> prefix, KeyMarker |-> keyMarker,
                                UploadIdMarker |-> uploadIDMarker,
                                MaxUploads |-> maxUploads, Result |-> r], 0)
               /\ UNCHANGED <<fs, used>> /\ UNCHANGED_conc

SpecUploads == InitConc /\ [][NextUploads]_vars

-----------------------------------------------------------------------------
(* SpecHold: the objects "k" and "a/k" of one bucket with object lock, with *)
(* or without a legal hold and a retention, and their removal.  A delete   *)
(* records in n the lock attributes the objects of its keys had.           *)

HoldKeys == {<<"k">>, <<"a", "k">>}

\* the lock attributes at a path as a number: 1 for a legal hold that is
\* on, 2 for a retention, 3 for both
LockAttrs(f, p) ==
    IF p \notin DOMAIN f THEN 0
    ELSE (IF /\ objectLegalHoldKey \in DOMAIN f[p].attrs
             /\ f[p].attrs[objectLegalHoldKey] = <<1>> THEN 1 ELSE 0)
         + (IF objectRetentionKey \in DOMAIN f[p].attrs THEN 2 ELSE 0)

NextHold ==
    \/ CallCreateBucket({TRUE})
    \/ CallPutObject(HoldKeys, {<<1>>}, BOOLEAN)
    \/ \E key \in HoldKeys, status \in BOOLEAN :
           LET r == PutObjectLegalHold(fs, Bucket, key, status)
           IN  /\ fs' = r.fs
               /\ resp' = Resp("PutObjectLegalHold", key, r.err, NoEtag, <<>>, 0)
               /\ UNCHANGED used /\ UNCHANGED_conc
    \/ \E key \in HoldKeys :
           LET r == PutObjectRetention(fs, Bucket, key, [Mode |-> "COMPLIANCE"])
           IN  /\ fs' = r.fs
               /\ resp' = Resp("PutObjectRetention", key, r.err, NoEtag, <<>>, 0)
               /\ UNCHANGED used /\ UNCHANGED_conc
    \/ \E key \in HoldKeys :
           LET r == DeleteObject(fs, Bucket, key)
           IN  /\ fs' = r.fs
               /\ resp' = Resp("DeleteObject", key, r.err, NoEtag, <<>>,
                               LockAttrs(fs, Join(Bucket, key)))
               /\ UNCHANGED used /\ UNCHANGED_conc
    \/ \E k1 \in HoldKeys, k2 \in HoldKeys :
           LET r == DeleteObjects(fs, Bucket, <<k1, k2>>)
           IN  /\ fs' = r.fs
               /\ resp' = Resp("DeleteObjects", <<k1, k2>>, r.err, NoEtag,
                               <<r.Deleted, r.Error>>,
                               LockAttrs(fs, Join(Bucket, k1))
                                   + 4 * LockAttrs(fs, Join(Bucket, k2)))
               /\ UNCHANGED used /\ UNCHANGED_conc

SpecHold == Init /\ [][NextHold]_vars

-----------------------------------------------------------------------------
(* SpecTmp: the four operations that write through a temp file, one step   *)
(* at a time.  Whether openTmpFile, the copy of the bytes, the link and    *)
(* the attribute stores succeed is the environment's choice; tmp records   *)
(* what became of the temp file when the call returned.                    *)

TmpOps == {"PutObject", "UploadPart", "UploadPartCopy", "CompleteMultipartUpload"}

\* "defer f.cleanup()" follows the successful openTmpFile in PutObject,
\* UploadPartCopy and CompleteMultipartUpload; UploadPart has no defer
DefersCleanup(op) == op \in {"PutObject", "UploadPartCopy", "CompleteMultipartUpload"}

\* the error returned when a step fails: EDQUOT of openTmpFile and of the
\* copy is QuotaExceeded; a source that is missing is NoSuchKey; PutObject
\* reports a failed MkdirAll or link as ExistingObjectIsDirectory
TmpErr(op, pc, e) ==
    IF e = "EDQUOT" THEN "QuotaExceeded"
    ELSE IF e = "ENOENT" THEN "NoSuchKey"
    ELSE IF op = "PutObject" /\ pc \in {"copied", "made"}
    THEN "ExistingObjectIsDirectory"
    ELSE "InternalError"

\* a return, at the step the call was at: the deferred cleanup runs; a temp
\* file that is neither linked nor cleaned up is left open
TmpReturn(t, err) ==
    LET cleaned == t.cleaned \/ t.deferred
    IN  [t EXCEPT !.pc = "returned", !.at = t.pc, !.err = err,
                  !.cleaned = cleaned, !.n = 0,
                  !.left = IF t.have /\ ~t.linked /\ ~cleaned
                           THEN t.left + 1 ELSE t.left]

\* openTmpFile and, where the operation has one, the defer; n is the
\* number of parts CompleteMultipartUpload has to copy
TmpOpen(op) ==
    \E e \in {OK, "EDQUOT", "EIO"},
       n \in IF op = "CompleteMultipartUpload" THEN 1..MaxPart ELSE {1} :
        /\ tmp.pc = "idle"
        /\ tmp.left < MaxLeft
        /\ tmp' = IF e = OK
                  THEN [tmp EXCEPT !.op = op, !.pc = "opened", !.have = TRUE,
                                   !.deferred = DefersCleanup(op), !.n = n]
                  ELSE TmpReturn([tmp EXCEPT !.op = op], TmpErr(op, "idle", e))
        /\ UNCHANGED <<fs, resp, used, wpc, wbody, rpc, rdata, linked, obs>>

\* UploadPartCopy: os.Open of the source object
TmpSource ==
    \E e \in {OK, "ENOENT", "EIO"} :
        /\ tmp.pc = "opened" /\ tmp.op = "UploadPartCopy"
        /\ tmp' = IF e = OK THEN [tmp EXCEPT !.pc = "source"]
                  ELSE TmpReturn(tmp, TmpErr(tmp.op, "opened", e))
        /\ UNCHANGED <<fs, resp, used, wpc, wbody, rpc, rdata, linked, obs>>

\* io.Copy of the body, of the source range or of one part into the temp
\* file; CompleteMultipartUpload opens and copies part after part
TmpCopy ==
    \E e \in {OK, "EDQUOT", "EIO"} :
        /\ tmp.pc = IF tmp.op = "UploadPartCopy" THEN "source" ELSE "opened"
        /\ tmp' = IF e = OK
                  THEN [tmp EXCEPT !.pc = IF tmp.n = 1 THEN "copied" ELSE @,
                                   !.n = tmp.n - 1]
                  ELSE TmpReturn(tmp, TmpErr(tmp.op, "opened", e))
        /\ UNCHANGED <<fs, resp, used, wpc, wbody, rpc, rdata, linked, obs>>

\* PutObject and CompleteMultipartUpload: MkdirAll of the parent directory
TmpMkdir ==
    \E e \in {OK, "EIO"} :
        /\ tmp.pc = "copied"
        /\ tmp.op \in {"PutObject", "CompleteMultipartUpload"}
        /\ tmp' = IF e = OK THEN [tmp EXCEPT !.pc = "made"]
                  ELSE TmpReturn(tmp, TmpErr(tmp.op, "copied", e))
        /\ UNCHANGED <<fs, resp, used, wpc, wbody, rpc, rdata, linked, obs>>

\* f.link(); UploadPart calls f.cleanup() once the link succeeded
TmpLink ==
    \E e \in {OK, "EIO"} :
        /\ tmp.pc = IF tmp.op \in {"PutObject", "CompleteMultipartUpload"}
                    THEN "made" ELSE "copied"
        /\ tmp' = IF e = OK
                  THEN [tmp EXCEPT !.pc = "linked", !.linked = TRUE,
                                   !.cleaned = (tmp.op = "UploadPart")]
                  ELSE TmpReturn(tmp, TmpErr(tmp.op, tmp.pc, e))
        /\ UNCHANGED <<fs, resp, used, wpc, wbody, rpc, rdata, linked, obs>>

\* the attribute stores that follow the link, and the return
TmpStore ==
    \E e \in {OK, "EIO"} :
        /\ tmp.pc = "linked"
        /\ tmp' = TmpReturn(tmp, IF e = OK THEN OK ELSE "InternalError")
        /\ UNCHANGED <<fs, resp, used, wpc, wbody, rpc, rdata, linked, obs>>

\* the next call
TmpAgain ==
    /\ tmp.pc = "returned"
    /\ tmp' = [NoTmp EXCEPT !.left = tmp.left]
    /\ UNCHANGED <<fs, resp, used, wpc, wbody, rpc, rdata, linked, obs>>

NextTmp ==
    \/ \E op \in TmpOps : TmpOpen(op)
    \/ TmpSource
    \/ TmpCopy
    \/ TmpMkdir
    \/ TmpLink
    \/ TmpStore
    \/ TmpAgain

SpecTmp == Init /\ [][NextTmp]_vars

-----------------------------------------------------------------------------
(* SpecChown: a backend constructed with any of the chown options and any  *)
(* effective ids, and getChownIDs for any account.                         *)

\* a getChownIDs that looks at the user id only
getChownIDsUidOnly(p, acct) ==
    [uid |-> IF p.chownuid /\ acct.UserID # p.euid THEN acct.UserID ELSE p.euid,
     gid |-> p.egid,
     needsChown |-> p.chownuid /\ acct.UserID # p.euid]

\* getChownIDs(acct): p holds chownuid, chowngid, euid and egid
getChownIDs(p, acct) ==
    LET byUid == p.chownuid /\ acct.UserID # p.euid
        byGid == p.chowngid /\ acct.GroupID # p.egid
    IN  [uid |-> IF byUid THEN acct.UserID ELSE p.euid,
         gid |-> IF byGid THEN acct.GroupID ELSE p.egid,
         needsChown |-> byUid \/ byGid]

\* New(rootdir, opts): the options and the effective ids of the process
InitChown ==
    /\ fs = <<>>
    /\ \E chownuid \in BOOLEAN, chowngid \in BOOLEAN,
          euid \in 0..MaxId, egid \in 0..MaxId :
           resp = Resp("New", <<>>, OK, NoEtag,
                       [p |-> [chownuid |-> chownuid, chowngid |-> chowngid,
                               euid |-> euid, egid |-> egid],
                        acct |-> [UserID |-> 0, GroupID |-> 0],
                        out |-> [uid |-> 0, gid |-> 0, needsChown |-> FALSE]], 0)
    /\ used = {}
    /\ wpc = [w \in Writers |-> "idle"]
    /\ wbody = [w \in Writers |-> <<>>]
    /\ rpc = "idle"
    /\ rdata = <<>>
    /\ linked = <<>>
    /\ obs = NoResp
    /\ tmp = NoTmp

NextChown ==
    \E UserID \in 0..MaxId, GroupID \in 0..MaxId :
        LET acct == [UserID |-> UserID, GroupID |-> GroupID]
        IN  /\ resp' = Resp("getChownIDs", <<>>, OK, NoEtag,
                            [p |-> resp.data.p, acct |-> acct,
                             out |-> getChownIDs(resp.data.p, acct)], 0)
            /\ UNCHANGED <<fs, used>> /\ UNCHANGED_conc

SpecChown == InitChown /\ [][NextChown]_vars

-----------------------------------------------------------------------------
(* SpecSiblings: two uploads of the key "k" in one bucket, each with or    *)
(* without its part 1, completed and aborted in any order.                 *)

NextSiblings ==
    \/ CallCreateMultipartUpload({NoMeta}, SeqRange(UploadIds))
    \/ \E id \in SeqRange(UploadIds), body \in {<<1>>, <<2>>} :
           LET r == UploadPart(fs, Bucket, MpKey, id, 1, body)
           IN  /\ fs' = r.fs
               /\ resp' = Resp("UploadPart", MpKey, r.err, r.etag,
                               [UploadId |-> id, PartNumber |-> 1], 0)
               /\ UNCHANGED used /\ UNCHANGED_conc
    \/ \E id \in SeqRange(UploadIds) :
           LET parts == CompleteParts(fs, id, <<1>>, 0)
               r == CompleteMultipartUpload(fs, Bucket, MpKey, id, parts)
           IN  /\ fs' = r.fs
               /\ resp' = Resp("CompleteMultipartUpload", MpKey, r.err, r.etag,
                               [UploadId |-> id], 0)
               /\ UNCHANGED used /\ UNCHANGED_conc
    \/ CallAbortMultipartUpload(SeqRange(UploadIds))

SpecSiblings == InitConc /\ [][NextSiblings]_vars

-----------------------------------------------------------------------------
(* SpecLength: range reads of the file "k" of 0..MaxSize bytes and of the  *)
(* directory-object "a/"; resp.n is the ContentLength of the output and    *)
(* resp.data.Body the bytes copied to the writer.                          *)

NextLength ==
    \/ CallCreateBucket({FALSE})
    \/ CallPutObject({MpKey}, {[i \in 1..n |-> i] : n \in 0..MaxSize}, {FALSE})
    \/ CallPutObject({<<"a", "">>}, {<<>>}, {FALSE})
    \/ CallDeleteObject({MpKey})
    \/ CallGetObjectRange({MpKey, <<"a", "">>},
                          [start : 0..MaxSize, end : -1..MaxSize])

SpecLength == Init /\ [][NextLength]_vars

-----------------------------------------------------------------------------
(* Claims about Spec *)

\* the node at a path, or that there is none
NodeAt(f, p) ==
    IF p \in DOMAIN f THEN [present |-> TRUE, node |-> f[p]]
    ELSE [present |-> FALSE]

\* C1: after a PutObject of a file key that returned success, GetObject of
\* the whole object returns the bytes of the body, and the etag PutObject
\* returned, the etag of GetObject and the etag of HeadObject are all the
\* hex MD5 of the body.
C1_PutGetRoundTrip ==
    (resp.op = "PutObject" /\ resp.err = OK /\ ~HasSuffixSlash(resp.key)) =>
        LET g == GetObject(fs, Bucket, resp.key, WholeRange)
            h == HeadObject(fs, Bucket, resp.key)
        IN  /\ g.err = OK
            /\ g.data = resp.data
            /\ resp.etag = Md5Hex(resp.data)
            /\ g.etag = Md5Hex(resp.data)
            /\ h.err = OK
            /\ h.etag = Md5Hex(resp.data)

\* a PutObject of a non-empty body to "a/k" has returned success
C1_Witness ==
    /\ resp.op = "PutObject"
    /\ resp.err = OK
    /\ resp.key = <<"a", "k">>
    /\ resp.data # <<>>
    /\ GetObject(fs, Bucket, resp.key, WholeRange).data = resp.data

\* C2: whatever a PutObject of a file key returns, the key is afterwards
\* either exactly as it was before the call, or it holds the whole new body
\* together with an etag that is the hex MD5 of that body.
C2_PublicationAtomic ==
    [][(resp'.op = "PutObject" /\ ~HasSuffixSlash(resp'.key)) =>
          LET p == Join(Bucket, resp'.key)
          IN  \/ NodeAt(fs', p) = NodeAt(fs, p)
              \/ /\ p \in DOMAIN fs'
                 /\ fs'[p].data = resp'.data
                 /\ ReadEtag(fs', Bucket, resp'.key) = Md5Hex(resp'.data)]_vars

-----------------------------------------------------------------------------
(* Claims about SpecConc *)

\* C3: a reader that runs while PutObject calls are under way gets the key
\* absent, or a body together with the etag of that body; it never gets a
\* body with a missing or empty etag.
C3_ReadersSeeBodyWithEtag ==
    (obs.op \in {"GetObject", "HeadObject"} /\ obs.err = OK) =>
        /\ obs.etag # NoEtag
        /\ obs.op = "GetObject" => obs.etag = Md5Hex(obs.data)

\* C4: when two PutObject calls on the same key have both returned success,
\* the object holds the body that was linked last and the stored etag is the
\* hex MD5 of that body.
C4_LastLinkWinsCoherent ==
    (\A w \in Writers : wpc[w] = "done") =>
        LET p == Join(Bucket, ConcKey)
        IN  /\ p \in DOMAIN fs
            /\ fs[p].data = linked
            /\ ReadEtag(fs, Bucket, ConcKey) = Md5Hex(fs[p].data)

-----------------------------------------------------------------------------
(* Claims about SpecTree *)

HasEtag(f, object) == RetrieveAttribute(f, Bucket, object, etagkey).err = OK

\* the parents of "a/b/c/k", outermost first
Chain == <<(<<"a">>), (<<"a", "b">>), (<<"a", "b", "c">>)>>

ChainFile == <<"a", "b", "c", "k">>

\* the bucket holds nothing but the path down to `leaf` (and .sgwtmp)
OnlyPathTo(f, leaf) ==
    DOMAIN f \subseteq
        {Join(Bucket, metaTmpDir)} \cup
        {SubSeq(Join(Bucket, leaf), 1, n) : n \in 1..Len(Join(Bucket, leaf))}

\* C5: no operation other than DeleteBucket removes the bucket directory; in
\* particular DeleteObject and DeleteObjects leave the bucket in place for
\* every key they are given.
C5_BucketOutlivesDeletes ==
    [][(Exists(fs, Bucket) /\ resp'.op # "DeleteBucket") =>
          /\ Exists(fs', Bucket)
          /\ HeadBucket(fs', Bucket) = OK]_vars

\* C6: a successful DeleteObject of the file "a/b/c/k", in a bucket that
\* holds nothing else, removes a parent directory exactly when neither it
\* nor a parent below it carries an etag; the parents that stay are left as
\* they were, attributes included.
C6_ParentsRemovedUpToEtag ==
    [][(/\ resp'.op = "DeleteObject"
        /\ resp'.key = ChainFile
        /\ resp'.err = OK
        /\ OnlyPathTo(fs, ChainFile)) =>
          /\ ~Exists(fs', Join(Bucket, ChainFile))
          /\ \A i \in 1..Len(Chain) :
                LET p == Join(Bucket, Chain[i])
                IN  IF \E j \in i..Len(Chain) : HasEtag(fs, Chain[j])
                    THEN p \in DOMAIN fs' /\ fs'[p] = fs[p]
                    ELSE p \notin DOMAIN fs']_vars

\* "a/b/c/k" was deleted from under the directory-object "a/b/": "a/b/c" is
\* gone, "a/b" is still there with its etag
C6_Witness ==
    /\ resp.op = "DeleteObject"
    /\ resp.key = ChainFile
    /\ resp.err = OK
    /\ OnlyPathTo(fs, <<"a", "b">>)
    /\ HasEtag(fs, <<"a", "b">>)
    /\ ~HasEtag(fs, <<"a">>)

\* C7: a successful DeleteObject of the directory-object "a/d/", in a bucket
\* that holds nothing else and where "a" carries no etag, removes "a" as
\* well, so that a DeleteBucket that follows succeeds.
C7_DirObjectParentsRemoved ==
    [][(/\ resp'.op = "DeleteObject"
        /\ resp'.key = <<"a", "d", "">>
        /\ resp'.err = OK
        /\ OnlyPathTo(fs, <<"a", "d">>)
        /\ HasEtag(fs, <<"a", "d">>)
        /\ ~HasEtag(fs, <<"a">>)) =>
          /\ ~Exists(fs', Join(Bucket, <<"a">>))
          /\ DOMAIN fs' \subseteq {Bucket, Join(Bucket, metaTmpDir)}
          /\ DeleteBucket(fs', Bucket).err = OK]_vars

\* C13: DeleteObjects of two keys returns no error; each of the two keys
\* is reported once, in Deleted when a DeleteObject of the key at its turn
\* returns no error and else in Error with the code of that DeleteObject;
\* Deleted and Error are in the order of the request; the second key is
\* deleted whether or not the first one failed.
C13_DeleteObjectsNeverFails ==
    [][resp'.op = "DeleteObjects" =>
          LET keys == resp'.key
              d1 == DeleteObject(fs, Bucket, keys[1])
              d2 == DeleteObject(d1.fs, Bucket, keys[2])
              ok == SelectSeq(<<1, 2>>, LAMBDA i : <<d1, d2>>[i].err = OK)
              bad == SelectSeq(<<1, 2>>, LAMBDA i : <<d1, d2>>[i].err # OK)
          IN  /\ resp'.err = OK
              /\ Len(resp'.data.Deleted) + Len(resp'.data.Error) = Len(keys)
              /\ resp'.data.Deleted = [i \in 1..Len(ok) |-> keys[ok[i]]]
              /\ resp'.data.Error =
                     [i \in 1..Len(bad) |->
                         [Key |-> keys[bad[i]], Code |-> <<d1, d2>>[bad[i]].err]]
              /\ \A i \in 1..Len(bad) :
                     resp'.data.Error[i].Code
                         \in {"NoSuchBucket", "NoSuchKey", "InternalError"}
              /\ fs' = d2.fs]_vars

\* the first key, a directory that is not empty, failed with InternalError
\* and the second key was deleted
C13_Witness ==
    /\ resp.op = "DeleteObjects"
    /\ resp.err = OK
    /\ resp.key = <<(<<"a">>), (<<"k">>)>>
    /\ resp.data.Deleted = <<(<<"k">>)>>
    /\ resp.data.Error = <<[Key |-> <<"a">>, Code |-> "InternalError"]>>
    /\ ~Exists(fs, Join(Bucket, <<"k">>))
    /\ Exists(fs, Join(Bucket, <<"a">>))

-----------------------------------------------------------------------------
(* Claims about SpecMp *)

\* the path of part n of upload id
PartPath(id, n) == Join(Bucket, Join(MpObjDir(MpKey), <<id, PartName(n)>>))

\* the byte strings of a sequence, one after the other
RECURSIVE Flatten(_)
Flatten(q) == IF q = <<>> THEN <<>> ELSE Head(q) \o Flatten(Tail(q))

\* hex(MD5(the raw MD5 digests of the bodies, one after the other)),
\* followed by "-" and the number of bodies
CompositeEtag(bodies) ==
    <<"md5", [i \in 1..Len(bodies) |-> <<"raw", bodies[i]>>], "-", Len(bodies)>>

\* C8: when CompleteMultipartUpload succeeds for a list of uploaded parts,
\* the etag it returns and stores is the hex MD5 of the raw MD5 digests of
\* the parts, followed by "-" and the number of parts, and GetObject of the
\* key returns the bytes of the parts in the order of the list.
C8_MultipartEtagAndContent ==
    [][(resp'.op = "CompleteMultipartUpload" /\ resp'.err = OK) =>
          LET parts == resp'.data.Parts
              bodies == [i \in 1..Len(parts) |->
                            fs[PartPath(resp'.data.UploadId,
                                        parts[i].PartNumber)].data]
              g == GetObject(fs', Bucket, resp'.key, WholeRange)
          IN  /\ resp'.etag = CompositeEtag(bodies)
              /\ ReadEtag(fs', Bucket, resp'.key) = CompositeEtag(bodies)
              /\ g.err = OK
              /\ g.etag = CompositeEtag(bodies)
              /\ g.data = Flatten(bodies)]_vars

\* the parts 1 and 2, of different bytes, were completed into the object
C8_Witness ==
    /\ resp.op = "CompleteMultipartUpload"
    /\ resp.err = OK
    /\ Len(resp.data.Parts) = 2
    /\ resp.data.Parts[1].PartNumber = 1
    /\ resp.data.Parts[2].PartNumber = 2
    /\ resp.etag[4] = 2
    /\ GetObject(fs, Bucket, MpKey, WholeRange).data = <<1, 1, MaxByte>>

\* a part list that must be refused: a listed part has no file, or its
\* etag is not the listed one, or a part other than the last has not the
\* size of the first
BadPartList(f, id, parts) ==
    \E i \in 1..Len(parts) :
        LET p == PartPath(id, parts[i].PartNumber)
            first == PartPath(id, parts[1].PartNumber)
        IN  \/ p \notin DOMAIN f
            \/ /\ p \in DOMAIN f
               /\ \/ etagkey \notin DOMAIN f[p].attrs
                  \/ f[p].attrs[etagkey] # parts[i].ETag
            \/ /\ i < Len(parts)
               /\ p \in DOMAIN f
               /\ first \in DOMAIN f
               /\ Len(f[p].data) # Len(f[first].data)

\* C9: a CompleteMultipartUpload of an existing upload with a part list
\* that must be refused returns InvalidPart and changes nothing: the key
\* reads as before and the upload still has all its parts.
C9_InvalidPartChangesNothing ==
    [][(/\ resp'.op = "CompleteMultipartUpload"
        /\ checkUploadIDExists(fs, Bucket, resp'.key, resp'.data.UploadId) = OK
        /\ BadPartList(fs, resp'.data.UploadId, resp'.data.Parts)) =>
          /\ resp'.err = "InvalidPart"
          /\ fs' = fs
          /\ GetObject(fs', Bucket, resp'.key, WholeRange)
                 = GetObject(fs, Bucket, resp'.key, WholeRange)
          /\ ListParts(fs', Bucket, resp'.key, resp'.data.UploadId, 0, 0)
                 = ListParts(fs, Bucket, resp'.key, resp'.data.UploadId, 0, 0)]_vars

\* three parts with the right etags were refused: the middle part has not
\* the size of the first
C9_Witness ==
    /\ resp.op = "CompleteMultipartUpload"
    /\ resp.err = "InvalidPart"
    /\ Len(resp.data.Parts) = 3
    /\ \A i \in 1..3 :
          LET p == PartPath(resp.data.UploadId, resp.data.Parts[i].PartNumber)
          IN  /\ p \in DOMAIN fs
              /\ ReadEtag(fs, Bucket, Join(MpObjDir(MpKey),
                     <<resp.data.UploadId, PartName(resp.data.Parts[i].PartNumber)>>))
                   = resp.data.Parts[i].ETag
    /\ Len(fs[PartPath(resp.data.UploadId, 2)].data)
           # Len(fs[PartPath(resp.data.UploadId, 1)].data)

\* C10: after a successful CompleteMultipartUpload the upload directory is
\* gone: ListMultipartUploads does not report the upload, UploadPart,
\* ListParts, AbortMultipartUpload and CompleteMultipartUpload with the same
\* key and upload id return NoSuchUpload, and the hashed-key container is
\* gone too when no other upload of the key is left.
C10_CompleteIsTerminal ==
    [][(resp'.op = "CompleteMultipartUpload" /\ resp'.err = OK) =>
          LET id == resp'.data.UploadId
              key == resp'.key
              container == Join(Bucket, MpObjDir(key))
              l == ListMultipartUploads(fs', Bucket, Len(UploadIds))
          IN  /\ ~Exists(fs', Join(container, <<id>>))
              /\ \A i \in 1..Len(l.Uploads) : l.Uploads[i].UploadID # id
              /\ UploadPart(fs', Bucket, key, id, 1, <<>>).err = "NoSuchUpload"
              /\ ListParts(fs', Bucket, key, id, 0, 0).err = "NoSuchUpload"
              /\ AbortMultipartUpload(fs', Bucket, key, id).err = "NoSuchUpload"
              /\ CompleteMultipartUpload(fs', Bucket, key, id,
                                         resp'.data.Parts).err = "NoSuchUpload"
              /\ (Children(fs', container) = {} => ~Exists(fs', container))]_vars

\* C11: an AbortMultipartUpload of an existing upload succeeds, and then
\* the upload directory and its parts are gone, ListMultipartUploads does
\* not report the upload, AbortMultipartUpload, UploadPart, ListParts and
\* CompleteMultipartUpload with that id return NoSuchUpload, and the key
\* reads as before.  An AbortMultipartUpload of an id that no upload of an
\* existing bucket has returns NoSuchUpload and changes nothing.
C11_AbortIsTerminal ==
    [][resp'.op = "AbortMultipartUpload" =>
          LET id == resp'.data.UploadId
              key == resp'.key
              updir == Join(Bucket, Join(MpObjDir(key), <<id>>))
              l == ListMultipartUploads(fs', Bucket, Len(UploadIds))
          IN  IF checkUploadIDExists(fs, Bucket, key, id) = OK
              THEN /\ resp'.err = OK
                   /\ \A q \in DOMAIN fs' : ~IsPrefixOf(updir, q)
                   /\ \A i \in 1..Len(l.Uploads) : l.Uploads[i].UploadID # id
                   /\ AbortMultipartUpload(fs', Bucket, key, id).err
                          = "NoSuchUpload"
                   /\ \A n \in 1..MaxPart, body \in MpBodies :
                          UploadPart(fs', Bucket, key, id, n, body).err
                              = "NoSuchUpload"
                   /\ ListParts(fs', Bucket, key, id, 0, 0).err = "NoSuchUpload"
                   /\ \A list \in PartLists :
                          CompleteMultipartUpload(fs', Bucket, key, id,
                              CompleteParts(fs, id, list, 0)).err = "NoSuchUpload"
                   /\ NodeAt(fs', Join(Bucket, key)) = NodeAt(fs, Join(Bucket, key))
                   /\ GetObject(fs', Bucket, key, WholeRange)
                          = GetObject(fs, Bucket, key, WholeRange)
              ELSE /\ fs' = fs
                   /\ (Exists(fs, Bucket) /\ id \notin used) =>
                          resp'.err = "NoSuchUpload"]_vars

\* an upload that was completed into the key and still had its parts was
\* aborted: the key is there, the upload is not
C11_Witness ==
    /\ resp.op = "AbortMultipartUpload"
    /\ resp.err = OK
    /\ resp.data.UploadId \in used
    /\ GetObject(fs, Bucket, MpKey, WholeRange).err = OK
    /\ GetObject(fs, Bucket, MpKey, WholeRange).data = <<1, 1, MaxByte>>
    /\ ~Exists(fs, Join(Bucket, Join(MpObjDir(MpKey), <<resp.data.UploadId>>)))

\* an id that no upload has was aborted while the upload of the key had parts
C11_WitnessUnknownId ==
    /\ resp.op = "AbortMultipartUpload"
    /\ resp.err = "NoSuchUpload"
    /\ resp.data.UploadId \notin used
    /\ \E id \in used : PartPath(id, 1) \in DOMAIN fs

-----------------------------------------------------------------------------
(* Claims about SpecMeta *)

\* the user metadata an upload was created with, as the upload directory
\* carries it: names without the header prefix
UploadMeta(f, id) ==
    LET a == f[Join(Bucket, Join(MpObjDir(MpKey), <<id>>))].attrs
    IN  [k \in {TrimMetaPrefix(e) : e \in DOMAIN a} |->
            a[CHOOSE e \in DOMAIN a : TrimMetaPrefix(e) = k]]

\* C12: after a successful CompleteMultipartUpload the user metadata that
\* HeadObject and GetObject return for the key (loadUserMetaData of the
\* object) is the metadata the upload was created with.
C12_MetadataPreserved ==
    [][(resp'.op = "CompleteMultipartUpload" /\ resp'.err = OK) =>
          loadUserMetaData(fs', Bucket, resp'.key)
              = UploadMeta(fs, resp'.data.UploadId)]_vars

-----------------------------------------------------------------------------
(* Claims about SpecBucket *)

\* the paths of the multipart uploads of the bucket
InMultipart(p) == IsPrefixOf(Join(Bucket, metaTmpMultipartDir), p)

\* the objects of the bucket that lie under the paths S: the files and the
\* directories with an etag, the parts of multipart uploads left aside
ObjectsIn(f, S) ==
    {p \in S \cap DOMAIN f :
        /\ Len(p) > Len(Bucket) /\ IsPrefixOf(Bucket, p) /\ ~InMultipart(p)
        /\ (f[p].kind = "file" \/ etagkey \in DOMAIN f[p].attrs)}

\* what DeleteBucket owes a bucket whose objects under S are the ones that
\* count
DeleteBucketKeeps(f, r, g, S) ==
    /\ ~Exists(f, Bucket) => r.err = "NoSuchBucket" /\ g = f
    /\ ObjectsIn(f, S) # {} => r.err = "BucketNotEmpty" /\ g = f
    /\ (Children(f, Bucket) = {Join(Bucket, metaTmpDir)} /\ ObjectsIn(f, S) = {})
          => r.err = OK /\ g = <<>>

\* C14: DeleteBucket of a missing bucket returns NoSuchBucket; of a bucket
\* that holds an object it returns BucketNotEmpty and removes nothing;
\* of a bucket whose only child is .sgwtmp it removes both and succeeds.
C14_DeleteBucketOnlyWhenEmpty ==
    [][resp'.op = "DeleteBucket" =>
          DeleteBucketKeeps(fs, resp', fs', DOMAIN fs)]_vars

\* the same for the objects that are not under .sgwtmp
C14_OutsideStateDir ==
    [][resp'.op = "DeleteBucket" =>
          DeleteBucketKeeps(fs, resp', fs',
              {p \in DOMAIN fs : ~IsPrefixOf(Join(Bucket, metaTmpDir), p)})]_vars

\* a bucket that held an object next to .sgwtmp and its uploads was not
\* deleted
C14_WitnessOutsideStateDir ==
    /\ resp.op = "DeleteBucket"
    /\ resp.err = "BucketNotEmpty"
    /\ Join(Bucket, <<"k">>) \in DOMAIN fs
    /\ PartPath(UploadIds[1], 1) \in DOMAIN fs

\* C15: CreateBucket of a missing bucket succeeds, stores the acl and the
\* lock configuration of the request, and HeadBucket then succeeds;
\* CreateBucket of a bucket that exists returns BucketAlreadyExists and
\* leaves its acl, its lock configuration and its contents as they are;
\* DeleteBucket of an empty bucket succeeds and HeadBucket then returns
\* NoSuchBucket.
C15_BucketLifecycle ==
    [][/\ resp'.op = "CreateBucket" =>
             IF ~Exists(fs, Bucket)
             THEN /\ resp'.err = OK
                  /\ HeadBucket(fs', Bucket) = OK
                  /\ RetrieveAttribute(fs', Bucket, <<"">>, aclkey).val
                         = [Owner |-> resp'.data.Owner]
                  /\ (RetrieveAttribute(fs', Bucket, <<"">>, bucketLockKey).err = OK)
                         = resp'.data.Lock
                  /\ Children(fs', Bucket) = {}
             ELSE /\ resp'.err = "BucketAlreadyExists"
                  /\ fs'[Bucket].attrs = fs[Bucket].attrs
                  /\ fs' = fs
                  /\ HeadBucket(fs', Bucket) = OK
       /\ (resp'.op = "DeleteBucket" /\ Exists(fs, Bucket)
             /\ Children(fs, Bucket) = {}) =>
             /\ resp'.err = OK
             /\ HeadBucket(fs', Bucket) = "NoSuchBucket"]_vars

\* a bucket that holds an object was created again by another owner and
\* with another lock configuration
C15_Witness ==
    /\ resp.op = "CreateBucket"
    /\ resp.err = "BucketAlreadyExists"
    /\ Join(Bucket, <<"k">>) \in DOMAIN fs
    /\ fs[Bucket].attrs[aclkey] # [Owner |-> resp.data.Owner]
    /\ resp.data.Lock
    /\ bucketLockKey \notin DOMAIN fs[Bucket].attrs

-----------------------------------------------------------------------------
(* Claims about SpecList *)

\* the keys a listing of the bucket owes: the files and the empty
\* directories with an etag that are not under .sgwtmp
EligibleKeys(f) ==
    LET rel(p) == SubSeq(p, Len(Bucket) + 1, Len(p))
        S == {p \in DOMAIN f :
                 /\ Len(p) > Len(Bucket) /\ IsPrefixOf(Bucket, p)
                 /\ ~IsPrefixOf(Join(Bucket, metaTmpDir), p)}
    IN  {rel(p) : p \in {q \in S : f[q].kind = "file"}}
        \cup {rel(p) \o <<"">> :
                 p \in {q \in S : /\ f[q].kind = "dir"
                                   /\ etagkey \in DOMAIN f[q].attrs
                                   /\ Children(f, q) = {}}}

\* the pages of ListObjectsV2 with max-keys m, each asked for with the
\* NextContinuationToken of the page before it; at most left + 1 pages
RECURSIVE PagesFrom(_, _, _, _)
PagesFrom(f, m, token, left) ==
    LET r == ListObjectsV2(f, Bucket, <<>>, token, <<>>, "", m)
    IN  IF r.IsTruncated /\ left > 0
        THEN <<r>> \o PagesFrom(f, m, <<r.NextMarker>>, left - 1)
        ELSE <<r>>

\* the keys of the pages, one page after the other
RECURSIVE PageKeys(_)
PageKeys(pages) ==
    IF pages = <<>> THEN <<>>
    ELSE [i \in 1..Len(pages[1].Contents) |-> pages[1].Contents[i].Key]
         \o PageKeys(Tail(pages))

\* C16: for a bucket of n keys and 0 < m < n, the first page of
\* ListObjectsV2 with max-keys m has m entries, is truncated and names its
\* last key as NextContinuationToken; the pages that follow by the
\* returned tokens give, one after the other, all keys in ascending order,
\* none twice and none left out, and only the last page is not truncated.
C16_PagingExact ==
    Exists(fs, Bucket) =>
        LET all == SortKeys(EligibleKeys(fs))
        IN  \A m \in 1..MaxList :
                m < Len(all) =>
                    LET pages == PagesFrom(fs, m, <<>>, Len(all))
                    IN  /\ Len(pages[1].Contents) = m
                        /\ pages[1].IsTruncated
                        /\ pages[1].NextMarker = all[m]
                        /\ PageKeys(pages) = all
                        /\ \A i \in 1..Len(pages) :
                               pages[i].IsTruncated = (i < Len(pages))
                        /\ \A i \in 1..(Len(pages) - 1) :
                               Len(pages[i].Contents) = m

\* the third page of one key each of a bucket of three keys was returned
C16_Witness ==
    /\ resp.op = "ListObjectsV2"
    /\ resp.n = 1
    /\ Len(SortKeys(EligibleKeys(fs))) = 3
    /\ resp.data.ContinuationToken = <<SortKeys(EligibleKeys(fs))[2]>>
    /\ resp.data.StartAfter = <<>>
    /\ Len(resp.data.Contents) = 1
    /\ resp.data.Contents[1].Key = SortKeys(EligibleKeys(fs))[3]
    /\ ~resp.data.IsTruncated

\* a listing output (Contents and CommonPrefixes) that names .sgwtmp or a
\* path beneath it
Exposes(r) ==
    \/ \E i \in 1..Len(r.Contents) : r.Contents[i].Key[1] = metaTmpDir[1]
    \/ \E i \in 1..Len(r.CommonPrefixes) : r.CommonPrefixes[i][1] = metaTmpDir[1]

\* C17: in every reachable state, for every prefix, delimiter, marker (or
\* continuation token and start-after) and max-keys, the Contents and the
\* CommonPrefixes of ListObjects and of ListObjectsV2 name neither .sgwtmp
\* nor a path beneath it.
C17_StateDirNeverListed ==
    \A prefix \in ListKeys, marker \in ListKeys, delim \in {"", "/"},
       maxkeys \in {1, MaxList + 1} :
        /\ ~Exposes(ListObjects(fs, Bucket, prefix, marker, delim, maxkeys))
        /\ \A startAfter \in {<<>>, <<metaTmpDir>>} :
               ~Exposes(ListObjectsV2(fs, Bucket, prefix, <<marker>>, startAfter,
                                      delim, maxkeys))

\* a bucket that holds an upload with two parts under .sgwtmp and the key
\* "k" was listed with its common prefixes, and "k" was in the answer
C17_Witness ==
    /\ resp.op = "ListObjects"
    /\ resp.data.Delimiter = "/"
    /\ PartPath(UploadIds[1], 1) \in DOMAIN fs
    /\ PartPath(UploadIds[1], 2) \in DOMAIN fs
    /\ \E i \in 1..Len(resp.data.Contents) : resp.data.Contents[i].Key = <<"k">>
    /\ ~Exposes(resp.data)

\* what a listing of the whole bucket owes the entries under the paths S:
\* a file is in Contents under its key with its etag attribute, or with the
\* empty etag when it has none; a directory of S with an etag is in
\* Contents under its key followed by "/", with that etag; a directory
\* without an etag is not in Contents
ListedByKind(f, S) ==
    LET r == ListObjects(f, Bucket, <<>>, <<>>, "", Cardinality(DOMAIN f))
        has(key, etag) == \E i \in 1..Len(r.Contents) :
                              /\ r.Contents[i].Key = key
                              /\ r.Contents[i].ETag = etag
        named(key) == \E i \in 1..Len(r.Contents) : r.Contents[i].Key = key
    IN  \A p \in DOMAIN f :
            (/\ Len(p) > Len(Bucket) /\ IsPrefixOf(Bucket, p)
             /\ ~IsPrefixOf(Join(Bucket, metaTmpDir), p)) =>
                LET key == SubSeq(p, Len(Bucket) + 1, Len(p))
                    a == f[p].attrs
                IN  /\ f[p].kind = "file" =>
                          has(key, IF etagkey \in DOMAIN a THEN a[etagkey]
                                   ELSE NoEtag)
                    /\ (f[p].kind = "dir" /\ etagkey \in DOMAIN a /\ p \in S) =>
                          has(key \o <<"">>, a[etagkey])
                    /\ (f[p].kind = "dir" /\ etagkey \notin DOMAIN a) =>
                          ~named(key \o <<"">>) /\ ~named(key)

\* C18: a listing has every file as an object with its stored etag or the
\* empty etag, every directory that carries an etag as a directory-object
\* whose key ends with "/", and no directory without an etag.
C18_ListedByKind == Exists(fs, Bucket) => ListedByKind(fs, DOMAIN fs)

\* the same where only the empty directories with an etag are owed
C18_EmptyDirectories ==
    Exists(fs, Bucket) =>
        ListedByKind(fs, {p \in DOMAIN fs : Children(fs, p) = {}})

\* C19: a ListObjectsV2 with both a continuation token and a start-after
\* walks from the greater of the two and echoes it as ContinuationToken,
\* and every key it returns is greater than both.
C19_EffectiveStart ==
    Exists(fs, Bucket) =>
        \A t \in ListKeys \cup {<<"b">>}, sa \in ListKeys \cup {<<"b">>},
           maxkeys \in {1, MaxList + 1} :
            LET r == ListObjectsV2(fs, Bucket, <<>>, <<t>>, <<sa>>, "", maxkeys)
            IN  /\ r.err = OK
                /\ r.Marker \in {t, sa}
                /\ ~KeyLess(r.Marker, t) /\ ~KeyLess(r.Marker, sa)
                /\ r = ListObjects(fs, Bucket, <<>>, r.Marker, "", maxkeys)
                /\ \A i \in 1..Len(r.Contents) :
                       /\ KeyLess(t, r.Contents[i].Key)
                       /\ KeyLess(sa, r.Contents[i].Key)

\* a page was asked for with the token "a/k" and the start-after "b" of a
\* bucket that holds "a/k", "b" and "k": it has the key "k"
C19_Witness ==
    /\ resp.op = "ListObjectsV2"
    /\ resp.data.ContinuationToken = <<(<<"a", "k">>)>>
    /\ resp.data.StartAfter = <<(<<"b">>)>>
    /\ resp.data.Marker = <<"b">>
    /\ Join(Bucket, <<"b">>) \in DOMAIN fs
    /\ Len(resp.data.Contents) = 1
    /\ resp.data.Contents[1].Key = <<"k">>

-----------------------------------------------------------------------------
(* Claims about SpecRange *)

\* the last call read a range of the file "k", which is still there
RangeRead ==
    /\ \/ resp.op = "GetObject"
       \/ resp.op = "UploadPartCopy" /\ Len(resp.data.CopySource) = 2
    /\ resp.err \notin {"NoSuchBucket", "NoSuchUpload"}
    /\ Join(Bucket, MpKey) \in DOMAIN fs
    /\ fs[Join(Bucket, MpKey)].kind = "file"

\* the range reaches past the end of an object of n bytes: it starts at or
\* after n, or it ends at or after n
PastEnd(range, n) == range.start >= n \/ range.end >= n

\* the range lies in [0, n-1]
Inside(range, n) ==
    /\ range.start < n
    /\ range.end = -1 \/ (range.start <= range.end /\ range.end < n)

\* the bytes of the range of data
RangeOf(data, range) ==
    SubSeq(data, range.start + 1,
           IF range.end = -1 THEN Len(data) ELSE range.end + 1)

\* C20: for an object of N bytes GetObject and UploadPartCopy answer
\* InvalidRange to every range that starts at or after N or ends at or
\* after N, and accept every range that lies in [0, N-1].
C20_RangeBounds ==
    RangeRead =>
        LET n == Len(fs[Join(Bucket, MpKey)].data)
            range == resp.data.Range
        IN  /\ PastEnd(range, n) => resp.err = "InvalidRange"
            /\ Inside(range, n) => resp.err = OK

\* a range that lies in [0, N-1] is accepted: GetObject returns its bytes,
\* UploadPartCopy makes them part 1 with the MD5 of these bytes as etag
C20_InsideAccepted ==
    RangeRead =>
        LET data == fs[Join(Bucket, MpKey)].data
            range == resp.data.Range
        IN  Inside(range, Len(data)) =>
                /\ resp.err = OK
                /\ resp.op = "GetObject" =>
                       resp.data.Body = RangeOf(data, range)
                /\ resp.op = "UploadPartCopy" =>
                       /\ fs[PartPath(resp.data.UploadId, 1)].data
                              = RangeOf(data, range)
                       /\ resp.etag = Md5Hex(RangeOf(data, range))

\* GetObject was asked for "bytes=1-1" of a file of one byte
C20_WitnessGetObject ==
    /\ RangeRead /\ resp.op = "GetObject"
    /\ Len(fs[Join(Bucket, MpKey)].data) = 1
    /\ resp.data.Range = [start |-> 1, end |-> 1]

\* UploadPartCopy was asked for "bytes=0-2" of a file of two bytes
C20_WitnessUploadPartCopy ==
    /\ RangeRead /\ resp.op = "UploadPartCopy"
    /\ Len(fs[Join(Bucket, MpKey)].data) = 2
    /\ resp.data.Range = [start |-> 0, end |-> 2]

\* UploadPartCopy made the second byte of a file of two bytes part 1
C20_WitnessInside ==
    /\ RangeRead /\ resp.op = "UploadPartCopy" /\ resp.err = OK
    /\ Len(fs[Join(Bucket, MpKey)].data) = 2
    /\ resp.data.Range = [start |-> 1, end |-> 1]
    /\ fs[PartPath(resp.data.UploadId, 1)].data = <<2>>

-----------------------------------------------------------------------------
(* Claims about reads of Spec *)

\* the last call read the key resp.key of the bucket, which is there
ObjectRead == resp.op \in {"GetObject", "HeadObject"} /\ Exists(fs, Bucket)

\* the data model: the path is a regular file or a directory with an etag
ObjectExists(f, p) ==
    /\ p \in DOMAIN f
    /\ f[p].kind = "file" \/ etagkey \in DOMAIN f[p].attrs

\* C21: GetObject and HeadObject succeed for regular files and for
\* directories that carry an etag, and answer NoSuchKey for every other
\* key, a directory without an etag included.
C21_ReadsFollowDataModel ==
    ObjectRead =>
        IF ObjectExists(fs, Join(Bucket, resp.key)) THEN resp.err = OK
        ELSE resp.err = "NoSuchKey"

\* the same for every key but the directories without an etag
C21_FilesAndMarkedDirectories ==
    (ObjectRead /\ ~(IsDir(fs, Join(Bucket, resp.key))
                     /\ ~ObjectExists(fs, Join(Bucket, resp.key)))) =>
        IF ObjectExists(fs, Join(Bucket, resp.key)) THEN resp.err = OK
        ELSE resp.err = "NoSuchKey"

\* "a" was read while it is the parent directory of "a/k", without an etag
C21_WitnessParentDirectory ==
    /\ ObjectRead /\ resp.key = <<"a">>
    /\ IsDir(fs, Join(Bucket, <<"a">>))
    /\ ~ObjectExists(fs, Join(Bucket, <<"a">>))
    /\ Join(Bucket, <<"a", "k">>) \in DOMAIN fs

\* the directory-object "a/" was read
C21_WitnessDirectoryObject ==
    /\ ObjectRead /\ resp.key = <<"a", "">> /\ resp.err = OK
    /\ ObjectExists(fs, Join(Bucket, <<"a">>))

-----------------------------------------------------------------------------
(* Claims about SpecPut *)

\* the object namespace of the bucket: all of it but the state directory
Namespace(f) ==
    Restrict(f, {p \in DOMAIN f : ~IsPrefixOf(Join(Bucket, metaTmpDir), p)})

\* a name on the way to p, p excluded, is a regular file; for the key "a/"
\* the way to it is to the path of "a" followed by the empty name
ParentIsFile(f, p) ==
    \E q \in Prefixes(p) : q # p /\ q \in DOMAIN f /\ f[q].kind = "file"

\* a full listing of f has the key with the etag
Listed(f, key, etag) ==
    LET r == ListObjects(f, Bucket, <<>>, <<>>, "", Cardinality(DOMAIN f))
    IN  \E i \in 1..Len(r.Contents) :
            r.Contents[i].Key = key /\ r.Contents[i].ETag = etag

\* what a PutObject of key with body owes, from the filesystem f it met to
\* the filesystem g it left, with or without the listing of directory-objects
PutObjectOwes(f, g, key, body, err, listed) ==
    LET name == Join(Bucket, key)
    IN  /\ (HasSuffixSlash(key) /\ body = <<>>
             /\ ~ParentIsFile(f, name \o <<"">>)) =>
              /\ err = OK
              /\ IsDir(g, name)
              /\ ReadEtag(g, Bucket, key) = emptyMD5
              /\ listed => Listed(g, key, emptyMD5)
        /\ (HasSuffixSlash(key) /\ body # <<>>) =>
              err = "DirectoryObjectContainsData"
        /\ (~HasSuffixSlash(key) /\ (IsDir(f, name) \/ ParentIsFile(f, name))) =>
              err = "ExistingObjectIsDirectory"
        /\ err \in {"DirectoryObjectContainsData", "ExistingObjectIsDirectory"} =>
              Namespace(g) = Namespace(f)

\* C22: PutObject of a key ending in "/" with an empty body makes a
\* directory-object with the etag of the empty body that a listing shows
\* under that key; with a body it answers DirectoryObjectContainsData; a
\* key without "/" whose path is a directory, or with a regular file on the
\* way to it, answers ExistingObjectIsDirectory; the three errors leave the
\* object namespace of the bucket as it was.
C22_DirectoryObjectsAndConflicts ==
    [][(resp'.op = "PutObject" /\ Exists(fs, Bucket)) =>
          PutObjectOwes(fs, fs', resp'.key, resp'.data, resp'.err, TRUE)]_vars

\* the same without the listing
C22_WithoutListing ==
    [][(resp'.op = "PutObject" /\ Exists(fs, Bucket)) =>
          PutObjectOwes(fs, fs', resp'.key, resp'.data, resp'.err, FALSE)]_vars

\* the same with the listing owed for the directories without entries
C22_ListedWhenEmpty ==
    [][(resp'.op = "PutObject" /\ Exists(fs, Bucket)) =>
          PutObjectOwes(fs, fs', resp'.key, resp'.data, resp'.err,
                        Children(fs', Join(Bucket, resp'.key)) = {})]_vars

\* "a/" was put with an empty body while "a/k" is there
C22_WitnessOverChildren ==
    /\ resp.op = "PutObject" /\ resp.key = <<"a", "">> /\ resp.err = OK
    /\ Join(Bucket, <<"a", "k">>) \in DOMAIN fs

\* "a/k" was refused because "a" is a regular file
C22_WitnessParentIsFile ==
    /\ resp.op = "PutObject" /\ resp.key = <<"a", "k">>
    /\ resp.err = "ExistingObjectIsDirectory"
    /\ Join(Bucket, <<"a">>) \in DOMAIN fs
    /\ fs[Join(Bucket, <<"a">>)].kind = "file"

\* "a" was refused because it is a directory
C22_WitnessPathIsDirectory ==
    /\ resp.op = "PutObject" /\ resp.key = <<"a">>
    /\ resp.err = "ExistingObjectIsDirectory"
    /\ IsDir(fs, Join(Bucket, <<"a">>))

\* "a/" was refused because it came with a body
C22_WitnessDirectoryWithData ==
    /\ resp.op = "PutObject" /\ resp.key = <<"a", "">>
    /\ resp.err = "DirectoryObjectContainsData"

-----------------------------------------------------------------------------
(* Claims about SpecLock *)

\* the bucket carries a bucket-lock record with Enabled true
LockEnabled(f) ==
    /\ Exists(f, Bucket)
    /\ bucketLockKey \in DOMAIN f[Bucket].attrs
    /\ f[Bucket].attrs[bucketLockKey].Enabled

\* the attribute of the path p in f, or that there is none
AttrAt(f, p, key) ==
    IF p \in DOMAIN f /\ key \in DOMAIN f[p].attrs
    THEN [present |-> TRUE, val |-> f[p].attrs[key]]
    ELSE [present |-> FALSE]

\* the attribute that a per-object lock call writes, and its bytes
LockAttrKey(op) ==
    IF op = "PutObjectLegalHold" THEN objectLegalHoldKey ELSE objectRetentionKey

LockAttrVal(op, data) ==
    IF op = "PutObjectLegalHold" THEN (IF data THEN <<1>> ELSE <<0>>) ELSE data

C23_WitnessStored ==
    /\ resp.op = "PutObjectRetention" /\ resp.key = <<"k">> /\ resp.err = OK
    /\ LockEnabled(fs)
    /\ AttrAt(fs, Join(Bucket, <<"k">>), objectRetentionKey).present

\* a legal hold was asked for a missing key of a lock-enabled bucket
C23_WitnessMissingKey ==
    /\ resp.op = "PutObjectLegalHold" /\ resp.err = "NoSuchKey"
    /\ LockEnabled(fs)

\* C24: PutObjectLockConfiguration succeeds, and stores its configuration,
\* only on a bucket whose bucket-lock record has Enabled true; on any other
\* bucket it answers ObjectLockConfigurationNotAllowed and changes nothing;
\* GetObjectLockConfiguration answers ObjectLockConfigurationNotFound when
\* there is no record and the stored record otherwise; the record changes
\* only when the bucket is made or removed or a configuration is put.
C24_LockConfiguration ==
    [][/\ (resp'.op = "PutObjectLockConfiguration" /\ Exists(fs, Bucket)) =>
              IF LockEnabled(fs)
              THEN /\ resp'.err = OK
                   /\ AttrAt(fs', Bucket, bucketLockKey)
                         = [present |-> TRUE, val |-> resp'.data]
              ELSE /\ resp'.err = "ObjectLockConfigurationNotAllowed"
                   /\ fs' = fs
       /\ (resp'.op = "GetObjectLockConfiguration" /\ Exists(fs, Bucket)) =>
              /\ fs' = fs
              /\ IF AttrAt(fs, Bucket, bucketLockKey).present
                 THEN /\ resp'.err = OK
                      /\ resp'.data = AttrAt(fs, Bucket, bucketLockKey).val
                 ELSE resp'.err = "ObjectLockConfigurationNotFound"
       /\ AttrAt(fs', Bucket, bucketLockKey) # AttrAt(fs, Bucket, bucketLockKey) =>
              /\ resp'.op \in {"CreateBucket", "DeleteBucket",
                                "PutObjectLockConfiguration"}
              /\ resp'.op = "CreateBucket" => LockEnabled(fs')
      ]_vars

\* a configuration was refused on a bucket whose record has Enabled false,
\* and the record is the one stored before
C24_WitnessRefusedWhenDisabled ==
    /\ resp.op = "PutObjectLockConfiguration"
    /\ resp.err = "ObjectLockConfigurationNotAllowed"
    /\ AttrAt(fs, Bucket, bucketLockKey).present
    /\ ~LockEnabled(fs)
    /\ resp.data # fs[Bucket].attrs[bucketLockKey]

\* a configuration was read back after it replaced the record of CreateBucket
C24_WitnessReadBack ==
    /\ resp.op = "GetObjectLockConfiguration" /\ resp.err = OK
    /\ resp.data = [Enabled |-> TRUE, DefaultRetention |-> "GOVERNANCE"]

\* a configuration was refused on a bucket made without object lock
C24_WitnessRefusedWhenAbsent ==
    /\ resp.op = "PutObjectLockConfiguration"
    /\ resp.err = "ObjectLockConfigurationNotAllowed"
    /\ ~AttrAt(fs, Bucket, bucketLockKey).present

\* what GetObjectLegalHold and GetObjectRetention owe for the path p, whose
\* attribute a decodes to val
LockGetOwes(f, p, a, val, err, data) ==
    IF p \notin DOMAIN f THEN err = "NoSuchKey"
    ELSE IF ~a.present THEN err = "NoSuchObjectLockConfiguration"
    ELSE err = OK /\ data = val

C25_WitnessRetention ==
    /\ resp.op = "GetObjectRetention" /\ resp.key = <<"k">>
    /\ resp.err = OK /\ resp.data = [Mode |-> "COMPLIANCE"]

\* the object "k" has a retention and no legal hold, which was asked for
C25_WitnessNeverSet ==
    /\ resp.op = "GetObjectLegalHold" /\ resp.key = <<"k">>
    /\ resp.err = "NoSuchObjectLockConfiguration"
    /\ AttrAt(fs, Join(Bucket, <<"k">>), objectRetentionKey).present

-----------------------------------------------------------------------------
(* Claims about SpecBlob *)

\* f and g are the same but for the attribute key of the bucket
SameButBucketAttr(f, g, key) ==
    /\ DOMAIN f = DOMAIN g
    /\ \A p \in DOMAIN f \ {Bucket} : f[p] = g[p]
    /\ Bucket \in DOMAIN f =>
          /\ f[Bucket].kind = g[Bucket].kind
          /\ \A k \in (DOMAIN f[Bucket].attrs \cup DOMAIN g[Bucket].attrs) \ {key} :
                 AttrAt(f, Bucket, k) = AttrAt(g, Bucket, k)

\* C26: a PutBucketTagging(t) is read back as t and a PutBucketPolicy(p) as
\* p until the next Put of the same kind; a Put of nil removes the blob
\* and succeeds whether or not one is stored; without a blob, and on a new
\* bucket, GetBucketTagging answers BucketTaggingNotFound and
\* GetBucketPolicy answers NoSuchBucketPolicy; the four calls change
\* nothing but their own blob.
C26_BucketBlobsRoundTrip ==
    [][/\ (resp'.op = "PutBucketTagging" /\ Exists(fs, Bucket)) =>
              /\ resp'.err = OK
              /\ SameButBucketAttr(fs, fs', "X-Amz-Tagging")
              /\ GetBucketTagging(fs', Bucket)
                   = IF resp'.data = <<>>
                     THEN [err |-> "BucketTaggingNotFound", val |-> <<>>]
                     ELSE [err |-> OK, val |-> resp'.data[1]]
       /\ (resp'.op = "PutBucketPolicy" /\ Exists(fs, Bucket)) =>
              /\ resp'.err = OK
              /\ SameButBucketAttr(fs, fs', "policy")
              /\ GetBucketPolicy(fs', Bucket)
                   = IF resp'.data = <<>>
                     THEN [err |-> "NoSuchBucketPolicy", val |-> <<>>]
                     ELSE [err |-> OK, val |-> resp'.data[1]]
       /\ resp'.op \in {"GetBucketTagging", "GetBucketPolicy"} => fs' = fs
       /\ resp'.op = "GetBucketTagging" =>
              [err |-> resp'.err, val |-> resp'.data] = GetBucketTagging(fs, Bucket)
       /\ resp'.op = "GetBucketPolicy" =>
              [err |-> resp'.err, val |-> resp'.data] = GetBucketPolicy(fs, Bucket)
       /\ (resp'.op = "CreateBucket" /\ resp'.err = OK) =>
              /\ GetBucketTagging(fs', Bucket).err = "BucketTaggingNotFound"
              /\ GetBucketPolicy(fs', Bucket).err = "NoSuchBucketPolicy"
       /\ GetBucketTagging(fs', Bucket) # GetBucketTagging(fs, Bucket) =>
              resp'.op \in {"PutBucketTagging", "CreateBucket", "DeleteBucket"}
       /\ GetBucketPolicy(fs', Bucket) # GetBucketPolicy(fs, Bucket) =>
              resp'.op \in {"PutBucketPolicy", "CreateBucket", "DeleteBucket"}
      ]_vars

\* the tags a |-> "2" were read from a lock-enabled bucket that holds "k"
\* and a policy
C26_WitnessTagsRead ==
    /\ resp.op = "GetBucketTagging" /\ resp.err = OK /\ resp.data = [a |-> "2"]
    /\ LockEnabled(fs)
    /\ Join(Bucket, <<"k">>) \in DOMAIN fs
    /\ AttrAt(fs, Bucket, "policy").present

\* the policy was removed from a bucket that keeps its tags
C26_WitnessPolicyRemoved ==
    /\ resp.op = "PutBucketPolicy" /\ resp.data = <<>> /\ resp.err = OK
    /\ AttrAt(fs, Bucket, "X-Amz-Tagging").present
    /\ ~AttrAt(fs, Bucket, "policy").present

\* the empty tags were read back
C26_WitnessEmptyTags ==
    /\ resp.op = "GetBucketTagging" /\ resp.err = OK /\ resp.data = <<>>

-----------------------------------------------------------------------------
(* Claims about SpecOwner *)

\* the buckets of f, and those whose acl names owner
BucketsOf(f) == {p \in DOMAIN f : Len(p) = 1}

OwnedBy(f, owner) ==
    {p \in BucketsOf(f) : AttrAt(f, p, aclkey).present
                            /\ AttrAt(f, p, aclkey).val.Owner = owner}

\* the elements of a sequence, which go up by name
Listing(seq) == {seq[i] : i \in 1..Len(seq)}

Ascending(seq) == \A i, j \in 1..Len(seq) : i < j => KeyLess(seq[i], seq[j])

\* C27: ListBuckets returns to a caller who is no admin exactly the buckets
\* whose acl names the caller as owner and to an admin every bucket, by
\* name; after ChangeBucketOwner(b, o) the bucket b is listed for o and for
\* no other account, its grants are as before and no other bucket changed.
C27_BucketsByOwner ==
    [][/\ resp'.op = "ListBuckets" =>
              /\ fs' = fs
              /\ resp'.err = OK
              /\ Ascending(resp'.data.Buckets)
              /\ Listing(resp'.data.Buckets)
                   = IF resp'.data.IsAdmin THEN BucketsOf(fs)
                     ELSE OwnedBy(fs, resp'.data.Owner)
       /\ (resp'.op = "ChangeBucketOwner" /\ Exists(fs, resp'.key)) =>
              /\ resp'.err = OK
              /\ \A acct \in {"root", "user", "other"} :
                     resp'.key \in Listing(ListBuckets(fs', acct, FALSE).Buckets)
                       <=> acct = resp'.data
              /\ fs'[resp'.key].attrs[aclkey].Grantees
                   = fs[resp'.key].attrs[aclkey].Grantees
              /\ DOMAIN fs' = DOMAIN fs
              /\ \A p \in DOMAIN fs \ {resp'.key} : fs'[p] = fs[p]
      ]_vars

\* "user" was listed the bucket "b" alone while "a" and "c" are of "root"
\* and "other"
C27_WitnessOneOfThree ==
    /\ resp.op = "ListBuckets" /\ ~resp.data.IsAdmin /\ resp.data.Owner = "user"
    /\ resp.data.Buckets = <<(<<"b">>)>>
    /\ OwnedBy(fs, "root") = {<<"a">>}
    /\ OwnedBy(fs, "other") = {<<"c">>}

\* the bucket "b" with a grant was given to "other" while "a" is of "user"
C27_WitnessOwnerChanged ==
    /\ resp.op = "ChangeBucketOwner" /\ resp.key = <<"b">> /\ resp.err = OK
    /\ resp.data = "other"
    /\ fs[<<"b">>].attrs[aclkey] = [Owner |-> "other", Grantees |-> <<"other">>]
    /\ OwnedBy(fs, "user") = {<<"a">>}

-----------------------------------------------------------------------------
(* Claims about SpecCopy *)

\* the step is a CopyObject whose destination is its source
CopyOntoItself ==
    /\ resp'.op = "CopyObject"
    /\ Join(resp'.data.DstBucket, resp'.key) =
           Join(resp'.data.SrcBucket, resp'.data.SrcObject)
    /\ Join(resp'.data.DstBucket, resp'.key) \in DOMAIN fs
    /\ fs[Join(resp'.data.DstBucket, resp'.key)].kind = "file"

\* C28: a CopyObject of an object onto itself with the user metadata the
\* object has returns InvalidCopyDest and changes nothing; with another
\* metadata M it succeeds, the content is as it was and the user metadata
\* read back is M, whatever the metadata before.
C28_CopyOntoItself ==
    [][ CopyOntoItself =>
          LET p == Join(resp'.data.DstBucket, resp'.key)
              M == resp'.data.Metadata
              had == loadUserMetaData(fs, resp'.data.DstBucket, resp'.key)
          IN  IF M = had
              THEN resp'.err = "InvalidCopyDest" /\ fs' = fs
              ELSE /\ resp'.err = OK
                   /\ p \in DOMAIN fs'
                   /\ fs'[p].data = fs[p].data
                   /\ loadUserMetaData(fs', resp'.data.DstBucket, resp'.key) = M
      ]_vars

\* C28, the part about the same metadata: InvalidCopyDest, nothing changes
C28_SameMetadataRefused ==
    [][ (CopyOntoItself /\ resp'.data.Metadata =
            loadUserMetaData(fs, resp'.data.DstBucket, resp'.key))
          => resp'.err = "InvalidCopyDest" /\ fs' = fs
      ]_vars

\* C28, the content: a copy onto itself that succeeds leaves the bytes
C28_ContentKept ==
    [][ (CopyOntoItself /\ resp'.err = OK)
          => fs'[Join(resp'.data.DstBucket, resp'.key)].data =
                fs[Join(resp'.data.DstBucket, resp'.key)].data
      ]_vars

\* a copy onto itself asked for [x |-> "v"] has succeeded and the object
\* has no user metadata
C28_WitnessMetadataLost ==
    /\ resp.op = "CopyObject" /\ resp.err = OK /\ resp.key = <<"k">>
    /\ resp.data.SrcBucket = resp.data.DstBucket
    /\ resp.data.SrcObject = <<"k">>
    /\ resp.data.Metadata = [x |-> "v"]
    /\ loadUserMetaData(fs, resp.data.DstBucket, <<"k">>) = NoMeta

\* a copy onto itself has been refused with InvalidCopyDest for an object
\* that has user metadata
C28_WitnessRefused ==
    /\ resp.op = "CopyObject" /\ resp.err = "InvalidCopyDest"
    /\ resp.data.Metadata = [x |-> "v"]

\* a copy onto itself of an object that has user metadata has failed with
\* an internal error
C28_WitnessDeleteFails ==
    /\ resp.op = "CopyObject" /\ resp.err = "InternalError"
    /\ resp.key = <<"k">> /\ resp.data.SrcObject = <<"k">>
    /\ resp.data.SrcBucket = resp.data.DstBucket
    /\ loadUserMetaData(fs, resp.data.DstBucket, <<"k">>) # NoMeta

\* the step is a CopyObject whose destination is not its source
CopyToOther ==
    /\ resp'.op = "CopyObject"
    /\ Join(resp'.data.DstBucket, resp'.key) #
           Join(resp'.data.SrcBucket, resp'.data.SrcObject)

\* what a CopyObject from src to dst owes when both buckets exist and the
\* source is an object: the content, the etag and the user metadata of the
\* source at the destination, the source as it was
CopyObjectOwes(f, g, srcBucket, srcObject, dstBucket, dstObject, err, etag) ==
    LET src == Join(srcBucket, srcObject)
        dst == Join(dstBucket, dstObject)
    IN  /\ err = OK
        /\ dst \in DOMAIN g
        /\ g[dst].data = f[src].data
        /\ etag = Md5Hex(f[src].data)
        /\ ReadEtag(g, dstBucket, dstObject) = etag
        /\ loadUserMetaData(g, dstBucket, dstObject) =
               loadUserMetaData(f, srcBucket, srcObject)
        /\ src \in DOMAIN g /\ g[src] = f[src]

\* the errors of a CopyObject: NoSuchBucket for a missing bucket, NoSuchKey
\* for a missing source, nothing created or modified
CopyObjectRefused(f, g, srcBucket, srcObject, dstBucket, err) ==
    IF ~Exists(f, srcBucket) \/ ~Exists(f, dstBucket)
    THEN err = "NoSuchBucket" /\ g = f
    ELSE err = "NoSuchKey" /\ g = f

\* C29: a CopyObject to a destination that is not the source publishes
\* there the content of the source with the hex MD5 of the content as etag
\* and the user metadata of the source, and leaves the source as it was; a
\* missing bucket gives NoSuchBucket, a missing source key NoSuchKey, and
\* then nothing is created or modified.
C29_CopyToOther ==
    [][ CopyToOther =>
          LET d == resp'.data
          IN  IF /\ Exists(fs, d.SrcBucket) /\ Exists(fs, d.DstBucket)
                 /\ ObjectExists(fs, Join(d.SrcBucket, d.SrcObject))
              THEN CopyObjectOwes(fs, fs', d.SrcBucket, d.SrcObject,
                                  d.DstBucket, resp'.key, resp'.err, resp'.etag)
              ELSE CopyObjectRefused(fs, fs', d.SrcBucket, d.SrcObject,
                                     d.DstBucket, resp'.err)
      ]_vars

\* C29 for a source that is a regular file and a destination key that does
\* not end in "/"
C29_FileToFile ==
    [][ (/\ CopyToOther
         /\ Exists(fs, resp'.data.SrcBucket) /\ Exists(fs, resp'.data.DstBucket)
         /\ Join(resp'.data.SrcBucket, resp'.data.SrcObject) \in DOMAIN fs
         /\ fs[Join(resp'.data.SrcBucket, resp'.data.SrcObject)].kind = "file"
         /\ ~HasSuffixSlash(resp'.key))
          => CopyObjectOwes(fs, fs', resp'.data.SrcBucket, resp'.data.SrcObject,
                            resp'.data.DstBucket, resp'.key, resp'.err, resp'.etag)
      ]_vars

\* C29, the errors: a missing bucket or nothing at the source path
C29_Refused ==
    [][ (/\ CopyToOther
         /\ \/ ~Exists(fs, resp'.data.SrcBucket)
            \/ ~Exists(fs, resp'.data.DstBucket)
            \/ Join(resp'.data.SrcBucket, resp'.data.SrcObject) \notin DOMAIN fs)
          => CopyObjectRefused(fs, fs', resp'.data.SrcBucket, resp'.data.SrcObject,
                               resp'.data.DstBucket, resp'.err)
      ]_vars

\* the empty file "k" has been copied with success to the directory-object
\* "d/" and the user metadata of "d/" is not that of "k"
C29_WitnessStaleMetadata ==
    /\ resp.op = "CopyObject" /\ resp.err = OK
    /\ resp.data.SrcObject = <<"k">> /\ resp.key = <<"d", "">>
    /\ resp.data.SrcBucket = <<"b">> /\ resp.data.DstBucket = <<"b">>
    /\ loadUserMetaData(fs, <<"b">>, <<"d", "">>) #
           loadUserMetaData(fs, <<"b">>, <<"k">>)

\* the copy of the directory-object "d/" to the key "k" has failed with an
\* internal error
C29_WitnessDirectorySource ==
    /\ resp.op = "CopyObject" /\ resp.err = "InternalError"
    /\ resp.data.SrcObject = <<"d", "">> /\ resp.key = <<"k">>
    /\ ObjectExists(fs, Join(resp.data.SrcBucket, <<"d", "">>))

\* the file "k" of bucket b, one byte and user metadata, has been copied
\* over another "k" in bucket c
C29_WitnessCopied ==
    /\ resp.op = "CopyObject" /\ resp.err = OK
    /\ resp.data.SrcBucket = <<"b">> /\ resp.data.SrcObject = <<"k">>
    /\ resp.data.DstBucket = <<"c">> /\ resp.key = <<"k">>
    /\ fs[<<"c", "k">>].data = <<1>>
    /\ loadUserMetaData(fs, <<"c">>, <<"k">>) = [x |-> "v"]
    /\ resp.data.Metadata = [x |-> "w"]

-----------------------------------------------------------------------------
(* Claims about SpecPart *)

\* no UploadPart call is between its first step and its return
NoPartInFlight(pc) == \A w \in Writers : pc[w] = "idle"

\* the stored etag of part 1 of the upload is the hex MD5 of its content
PartCoherent(f) ==
    PartPath(ConcUpload, 1) \in DOMAIN f =>
        ReadEtag(f, Bucket, ConcPartPath) =
            Md5Hex(f[PartPath(ConcUpload, 1)].data)

\* what an UploadPart that ran by itself owes: NoSuchUpload and nothing
\* stored for a missing upload, else the hex MD5 of the body returned and
\* stored and the body as the content of the part
UploadPartOwes(f, g, id, part, body, err, etag) ==
    IF checkUploadIDExists(f, Bucket, MpKey, id) # OK
    THEN err = "NoSuchUpload" /\ g = f
    ELSE /\ err = OK
         /\ etag = Md5Hex(body)
         /\ PartPath(id, part) \in DOMAIN g
         /\ g[PartPath(id, part)].data = body
         /\ g[PartPath(id, part)].attrs = (etagkey :> etag)

\* C30: UploadPart on a missing upload returns NoSuchUpload and stores
\* nothing; a successful UploadPart returns the hex MD5 of the body and
\* replaces the part; and once the UploadPart calls that ran concurrently
\* on one part have returned, whatever the order of their link and
\* etag-store steps, the etag of the part is the MD5 of its content, so
\* that a CompleteMultipartUpload quoting the listed etag assembles
\* content whose MD5 is that etag.
C30_PartUploadsCoherent ==
    [][ /\ (resp'.op = "UploadPart" /\ wpc' = wpc) =>
            UploadPartOwes(fs, fs', resp'.data.UploadId, resp'.data.PartNumber,
                           resp'.data.Body, resp'.err, resp'.etag)
        /\ NoPartInFlight(wpc') => PartCoherent(fs')
        /\ (/\ resp'.op = "CompleteMultipartUpload" /\ resp'.err = OK
            /\ wpc' = wpc /\ NoPartInFlight(wpc))
              => Md5Hex(fs'[Join(Bucket, MpKey)].data) = resp'.data.Parts[1].ETag
      ]_vars

\* C30, the calls that run in one step: a step that leaves the calls in
\* flight where they are and has the response of an UploadPart
C30_UploadPartAlone ==
    [][ (resp'.op = "UploadPart" /\ wpc' = wpc) =>
            UploadPartOwes(fs, fs', resp'.data.UploadId, resp'.data.PartNumber,
                           resp'.data.Body, resp'.err, resp'.etag)
      ]_vars

\* both concurrent calls have returned and part 1 has the bytes of one
\* body under the etag of the other
C30_WitnessMixedPart ==
    /\ NoPartInFlight(wpc)
    /\ PartPath(ConcUpload, 1) \in DOMAIN fs
    /\ fs[PartPath(ConcUpload, 1)].data = <<2>>
    /\ ReadEtag(fs, Bucket, ConcPartPath) = Md5Hex(<<1>>)

\* a CompleteMultipartUpload quoting the listed etag of part 1 has
\* succeeded and the MD5 of the object's content is not that etag
C30_WitnessCompleteMixed ==
    /\ resp.op = "CompleteMultipartUpload" /\ resp.err = OK
    /\ NoPartInFlight(wpc)
    /\ Md5Hex(fs[Join(Bucket, MpKey)].data) # resp.data.Parts[1].ETag

\* an UploadPart has replaced part 1 of the upload by another body
C30_WitnessReplaced ==
    /\ resp.op = "UploadPart" /\ resp.err = OK
    /\ resp.data.PartNumber = 1 /\ resp.data.Body = <<2>>
    /\ fs[PartPath(ConcUpload, 1)].data = <<2>>

\* an UploadPart on an upload that is not there has returned NoSuchUpload
C30_WitnessNoSuchUpload ==
    resp.op = "UploadPart" /\ resp.err = "NoSuchUpload"

-----------------------------------------------------------------------------
(* Claims about SpecParts *)

\* the numbers of the parts of upload id that are uploaded
UploadedParts(f, id) == {n \in 1..MaxPart : PartPath(id, n) \in DOMAIN f}

\* the page a ListParts owes: the parts above the marker in ascending
\* order, the first maxParts of them when maxParts > 0
PartsPageOwed(f, id, marker, maxParts) ==
    LET all == SortedParts(UploadedParts(f, id) \ (0..marker))
    IN  IF maxParts > 0 /\ Len(all) > maxParts
        THEN SubSeq(all, 1, maxParts) ELSE all

\* the part numbers of the pages from marker on, each page asked for with
\* the NextPartNumberMarker of the page before; pages is the most pages
RECURSIVE PagesOfParts(_, _, _, _, _)
PagesOfParts(f, id, marker, maxParts, pages) ==
    LET r == ListPartsInput(f, Bucket, MpKey, id,
                            IF marker = 0 THEN "" ELSE ToString(marker), maxParts)
        nums == [i \in 1..Len(r.Parts) |-> r.Parts[i].PartNumber]
    IN  IF r.err # OK \/ pages = 0 THEN <<>>
        ELSE IF ~r.IsTruncated THEN nums
        ELSE nums \o PagesOfParts(f, id, r.NextPartNumberMarker, maxParts,
                                  pages - 1)

\* C31: ListParts returns the uploaded parts above PartNumberMarker in
\* ascending order, the first MaxParts of them when MaxParts > 0, with
\* IsTruncated exactly when parts were cut off and NextPartNumberMarker the
\* number of the last part of the page; the pages that follow one another
\* by NextPartNumberMarker hold every part once; a marker that is no number
\* gives InvalidPartNumberMarker and an unknown upload NoSuchUpload.
C31_ListPartsPaging ==
    (resp.op = "ListParts" /\ resp.key = MpKey) =>
        LET d == resp.data
            a == AtoiMarker(d.PartNumberMarker)
            marker == IF d.PartNumberMarker = "" THEN 0 ELSE a.n
            owed == PartsPageOwed(fs, d.UploadId, marker, d.MaxParts)
            above == UploadedParts(fs, d.UploadId) \ (0..marker)
        IN  IF d.PartNumberMarker # "" /\ a.err # OK
            THEN resp.err = "InvalidPartNumberMarker"
            ELSE IF checkUploadIDExists(fs, Bucket, MpKey, d.UploadId) # OK
            THEN resp.err = "NoSuchUpload"
            ELSE /\ resp.err = OK
                 /\ [i \in 1..Len(d.Parts) |-> d.Parts[i].PartNumber] = owed
                 /\ \A i \in 1..Len(d.Parts) :
                        /\ d.Parts[i].ETag =
                              fs[PartPath(d.UploadId, d.Parts[i].PartNumber)].attrs[etagkey]
                        /\ d.Parts[i].Size =
                              Len(fs[PartPath(d.UploadId, d.Parts[i].PartNumber)].data)
                 /\ d.IsTruncated = (Len(owed) < Cardinality(above))
                 /\ d.NextPartNumberMarker =
                        (IF owed = <<>> THEN 0 ELSE owed[Len(owed)])
                 /\ \A maxParts \in 1..MaxList :
                        PagesOfParts(fs, d.UploadId, 0, maxParts, MaxPart + 1) =
                            SortedParts(UploadedParts(fs, d.UploadId))

\* a page of one part was asked for after part 1 of an upload that has the
\* parts 1, 2 and 3: it holds part 2 and is truncated
C31_WitnessMiddlePage ==
    /\ resp.op = "ListParts" /\ resp.err = OK
    /\ UploadedParts(fs, "u1") = {1, 2, 3}
    /\ resp.data.PartNumberMarker = "1" /\ resp.data.MaxParts = 1
    /\ Len(resp.data.Parts) = 1 /\ resp.data.Parts[1].PartNumber = 2
    /\ resp.data.IsTruncated /\ resp.data.NextPartNumberMarker = 2

\* a ListParts with a marker that is no number was refused
C31_WitnessInvalidMarker ==
    /\ resp.op = "ListParts" /\ resp.err = "InvalidPartNumberMarker"
    /\ resp.data.PartNumberMarker = NoNumber

\* a ListParts of an upload that is not there was refused
C31_WitnessNoSuchUpload ==
    /\ resp.op = "ListParts" /\ resp.err = "NoSuchUpload"
    /\ resp.data.UploadId = "u2"

-----------------------------------------------------------------------------
(* Claims about SpecUploads *)

\* the uploads in progress under a prefix, <<key, id>>
InProgress(f, prefix) ==
    {<<key, id>> \in LmuKeys \X SeqRange(LmuIds) :
        /\ IsDir(f, Join(Bucket, Join(MpObjDir(key), <<id>>)))
        /\ LmuHasPrefix(key, prefix)}

\* the last call was a ListMultipartUploads
UploadsListed == resp.op = "ListMultipartUploads"

\* the uploads of a page as <<key, id>>
PageOf(r) == {<<r.Uploads[i].Key, r.Uploads[i].UploadID>> : i \in 1..Len(r.Uploads)}

\* the keys of a page ascend
KeysAscend(r) ==
    \A i, j \in 1..Len(r.Uploads) :
        i < j => ~KeyLess(r.Uploads[j].Key, r.Uploads[i].Key)

\* C32: ListMultipartUploads returns a result for every set of uploads and
\* every Prefix, KeyMarker, UploadIdMarker and MaxUploads, with at most
\* MaxUploads uploads in ascending order of their keys; when uploads that
\* belong to the page are left out, IsTruncated is true and the next
\* markers are the key and the id of the last upload of the page.  The
\* uploads left out are counted for the requests without markers.
C32_PageCapped ==
    UploadsListed =>
        LET d == resp.data
            r == d.Result
        IN  /\ r.err = OK
            /\ Len(r.Uploads) <= d.MaxUploads
            /\ KeysAscend(r)
            /\ (/\ d.KeyMarker = <<>> /\ d.UploadIdMarker = "" /\ d.MaxUploads > 0
                /\ InProgress(fs, d.Prefix) \ PageOf(r) # {})
                  => /\ r.IsTruncated
                     /\ r.Uploads # <<>>
                     /\ r.NextKeyMarker = r.Uploads[Len(r.Uploads)].Key
                     /\ r.NextUploadIDMarker = r.Uploads[Len(r.Uploads)].UploadID

\* C32, the call returns: no index out of range
C32_NoOutOfRange == UploadsListed => resp.data.Result.err = OK

\* C32, the cap
C32_AtMostMaxUploads ==
    (UploadsListed /\ resp.data.Result.err = OK) =>
        Len(resp.data.Result.Uploads) <= resp.data.MaxUploads

\* C32, the order of the page and, for a page that is cut, its markers
C32_AscendingAndMarkers ==
    (UploadsListed /\ resp.data.Result.err = OK) =>
        LET r == resp.data.Result
        IN  /\ KeysAscend(r)
            /\ PageOf(r) \subseteq InProgress(fs, resp.data.Prefix)
            /\ r.IsTruncated =>
                   /\ r.Uploads # <<>>
                   /\ r.NextKeyMarker = r.Uploads[Len(r.Uploads)].Key
                   /\ r.NextUploadIDMarker = r.Uploads[Len(r.Uploads)].UploadID

\* a page of at most one upload was asked for, without markers, of a
\* bucket with two uploads: it has both
C32_WitnessOverCap ==
    /\ UploadsListed /\ resp.data.Result.err = OK
    /\ resp.data.MaxUploads = 1 /\ resp.data.KeyMarker = <<>>
    /\ resp.data.UploadIdMarker = ""
    /\ Len(resp.data.Result.Uploads) = 2

\* a page of one upload after the key "b" of a bucket with four uploads
\* ended in an index out of range
C32_WitnessOutOfRange ==
    /\ UploadsListed /\ resp.data.Result.err = "IndexOutOfRange"
    /\ resp.data.KeyMarker = <<"b">> /\ resp.data.MaxUploads = 1
    /\ Cardinality(InProgress(fs, <<>>)) = 4

\* a page of two uploads of a bucket with four was cut after the second
C32_WitnessTruncated ==
    /\ UploadsListed /\ resp.data.Result.err = OK
    /\ resp.data.Result.IsTruncated
    /\ Len(resp.data.Result.Uploads) = 2
    /\ Cardinality(InProgress(fs, <<>>)) = 4

\* a marker of the request is set and matches no upload in progress under
\* the prefix
MarkerNotFound(f, d) ==
    \/ /\ d.KeyMarker # <<>>
       /\ \A u \in InProgress(f, d.Prefix) : u[1] # d.KeyMarker
    \/ /\ d.UploadIdMarker # ""
       /\ \A u \in InProgress(f, d.Prefix) : u[2] # d.UploadIdMarker

\* the uploads in progress under the prefix whose key is after k
AfterKey(f, prefix, k) == {u \in InProgress(f, prefix) : KeyLess(k, u[1])}

\* C33: with a KeyMarker or an UploadIdMarker that matches no upload in
\* progress the page is empty; with a KeyMarker k that is found, every
\* upload of the page has a key after k and the page holds the uploads with
\* a key after k, as many as fit, whatever the order in which the hashed
\* containers are read.  The uploads owed are counted for the requests
\* without an UploadIdMarker.
C33_MarkersHonoured ==
    (UploadsListed /\ resp.data.Result.err = OK) =>
        LET d == resp.data
            r == d.Result
            after == AfterKey(fs, d.Prefix, d.KeyMarker)
        IN  IF MarkerNotFound(fs, d)
            THEN r.Uploads = <<>> /\ ~r.IsTruncated
            ELSE d.KeyMarker # <<>> =>
                    /\ \A i \in 1..Len(r.Uploads) :
                           KeyLess(d.KeyMarker, r.Uploads[i].Key)
                    /\ (d.UploadIdMarker = "" /\ d.MaxUploads > 0) =>
                           \/ after \subseteq PageOf(r)
                           \/ Len(r.Uploads) >= d.MaxUploads

\* C33, a marker that is not found: the page is empty
C33_MarkerNotFound ==
    (UploadsListed /\ resp.data.Result.err = OK /\ MarkerNotFound(fs, resp.data))
        => resp.data.Result.Uploads = <<>> /\ ~resp.data.Result.IsTruncated

\* a page was asked for after the key "a" of a bucket with an upload of
\* "a" and an upload of "b": it is empty
C33_WitnessSkipped ==
    /\ UploadsListed /\ resp.data.Result.err = OK
    /\ resp.data.KeyMarker = <<"a">> /\ resp.data.UploadIdMarker = ""
    /\ resp.data.Prefix = <<>> /\ resp.data.MaxUploads = 2
    /\ Cardinality(InProgress(fs, <<>>)) = 2
    /\ AfterKey(fs, <<>>, <<"a">>) # {}
    /\ resp.data.Result.Uploads = <<>>

\* a page was asked for after the key "b" of a bucket with an upload of
\* "a" and an upload of "b": it has the upload of "b"
C33_WitnessMarkerReturned ==
    /\ UploadsListed /\ resp.data.Result.err = OK
    /\ resp.data.KeyMarker = <<"b">> /\ resp.data.UploadIdMarker = ""
    /\ Cardinality(InProgress(fs, <<>>)) = 2
    /\ Len(resp.data.Result.Uploads) = 1
    /\ resp.data.Result.Uploads[1].Key = <<"b">>

\* a page was asked for after the key "b" of a bucket whose uploads are
\* all of "a": it is empty
C33_WitnessNotFound ==
    /\ UploadsListed /\ resp.data.Result.err = OK
    /\ resp.data.KeyMarker = <<"b">>
    /\ InProgress(fs, <<>>) # {}
    /\ \A u \in InProgress(fs, <<>>) : u[1] = <<"a">>
    /\ resp.data.Result.Uploads = <<>>

-----------------------------------------------------------------------------
(* Claims about SpecHold *)

\* the filesystem without the legal holds and the retentions of its paths
Unprotected(f) ==
    [p \in DOMAIN f |->
        IF \/ objectLegalHoldKey \in DOMAIN f[p].attrs
           \/ objectRetentionKey \in DOMAIN f[p].attrs
        THEN [f[p] EXCEPT !.attrs =
                 [k \in DOMAIN f[p].attrs \ {objectLegalHoldKey, objectRetentionKey} |->
                     f[p].attrs[k]]]
        ELSE f[p]]

C34_WitnessBatchDeleted ==
    /\ resp.op = "DeleteObjects" /\ Len(resp.data[1]) = 2
    /\ resp.n = 1 + 4 * 2
    /\ \A key \in HoldKeys : Join(Bucket, key) \notin DOMAIN fs

-----------------------------------------------------------------------------
(* C35: temp-file hygiene *)

\* the call returned with a temp file that was opened
ReturnedWithTemp == tmp.pc = "returned" /\ tmp.have

\* C35: at every return of PutObject, UploadPart, UploadPartCopy and
\* CompleteMultipartUpload the temp file the call opened is linked or was
\* cleaned up, and a call that returns an error has run cleanup.
C35_TempFileHygiene ==
    ReturnedWithTemp =>
        /\ tmp.linked \/ tmp.cleaned
        /\ tmp.err # OK => tmp.cleaned

\* C35, the operations that defer the cleanup: PutObject, UploadPartCopy
\* and CompleteMultipartUpload return with the temp file cleaned up, and
\* leave none open.
C35_DeferredCleanup ==
    (ReturnedWithTemp /\ tmp.op # "UploadPart") => tmp.cleaned

\* C35, UploadPart: a call whose link succeeded has linked and cleaned up
\* its temp file.
C35_UploadPartLinked ==
    (ReturnedWithTemp /\ tmp.op = "UploadPart" /\ tmp.linked) => tmp.cleaned

\* UploadPart returned the error of the copy and its temp file is neither
\* linked nor cleaned up
C35_WitnessCopyFailed ==
    /\ ReturnedWithTemp /\ tmp.op = "UploadPart" /\ tmp.at = "opened"
    /\ tmp.err = "QuotaExceeded"
    /\ ~tmp.linked /\ ~tmp.cleaned /\ tmp.left = 1

\* UploadPart returned the error of the link and its temp file is neither
\* linked nor cleaned up
C35_WitnessLinkFailed ==
    /\ ReturnedWithTemp /\ tmp.op = "UploadPart" /\ tmp.at = "copied"
    /\ tmp.err = "InternalError"
    /\ ~tmp.linked /\ ~tmp.cleaned /\ tmp.left = MaxLeft

\* PutObject returned the error of the link with its temp file cleaned up
C35_WitnessPutCleaned ==
    /\ ReturnedWithTemp /\ tmp.op = "PutObject" /\ tmp.at = "made"
    /\ tmp.err = "ExistingObjectIsDirectory" /\ ~tmp.linked /\ tmp.cleaned

\* UploadPart returned with success
C35_WitnessPartLinked ==
    /\ ReturnedWithTemp /\ tmp.op = "UploadPart" /\ tmp.err = OK
    /\ tmp.linked /\ tmp.cleaned

-----------------------------------------------------------------------------
(* C36: the chown decision *)

\* C36: getChownIDs asks for a chown exactly when chownuid is on and the
\* account's UserID is not the euid, or chowngid is on and the account's
\* GroupID is not the egid; the uid is the account's UserID when chownuid
\* is on and the euid otherwise, the gid is the account's GroupID when
\* chowngid is on and the egid otherwise; with both options off no chown is
\* asked for.
C36_ChownDecision ==
    resp.op = "getChownIDs" =>
        LET p == resp.data.p
            acct == resp.data.acct
            out == resp.data.out
        IN  /\ out.needsChown <=> \/ (p.chownuid /\ acct.UserID # p.euid)
                                  \/ (p.chowngid /\ acct.GroupID # p.egid)
            /\ out.uid = IF p.chownuid THEN acct.UserID ELSE p.euid
            /\ out.gid = IF p.chowngid THEN acct.GroupID ELSE p.egid
            /\ (~p.chownuid /\ ~p.chowngid) => ~out.needsChown

\* chowngid alone is on, the account has the user id of the process and
\* another group id: a chown to the account's group is asked for
C36_WitnessGroupOnly ==
    /\ resp.op = "getChownIDs"
    /\ ~resp.data.p.chownuid /\ resp.data.p.chowngid
    /\ resp.data.acct.UserID # resp.data.p.euid
    /\ resp.data.acct.GroupID # resp.data.p.egid
    /\ resp.data.out.needsChown
    /\ resp.data.out.uid = resp.data.p.euid
    /\ resp.data.out.gid = resp.data.acct.GroupID

\* both options are off and the account has other ids: no chown
C36_WitnessDisabled ==
    /\ resp.op = "getChownIDs"
    /\ ~resp.data.p.chownuid /\ ~resp.data.p.chowngid
    /\ resp.data.acct.UserID # resp.data.p.euid
    /\ resp.data.acct.GroupID # resp.data.p.egid
    /\ ~resp.data.out.needsChown

\* both options are on and the account has the ids of the process: no chown
C36_WitnessSameIds ==
    /\ resp.op = "getChownIDs"
    /\ resp.data.p.chownuid /\ resp.data.p.chowngid
    /\ resp.data.acct.UserID = resp.data.p.euid
    /\ resp.data.acct.GroupID = resp.data.p.egid
    /\ ~resp.data.out.needsChown

-----------------------------------------------------------------------------
(* C37: sibling uploads of one key *)

\* the directory of an upload of "k"
SiblingDir(id) == Join(Bucket, Join(MpObjDir(MpKey), <<id>>))

\* the upload directory of id with everything below it: the parts, their
\* bytes and their attributes
UploadTree(f, id) ==
    Restrict(f, {p \in DOMAIN f : IsPrefixOf(SiblingDir(id), p)})

\* the entries of the listing, asked for with room for every upload, that
\* are of the upload id
ListedAs(f, id) ==
    LET r == ListMultipartUploads(f, Bucket, Len(UploadIds))
    IN  {r.Uploads[i] : i \in {j \in 1..Len(r.Uploads) : r.Uploads[j].UploadID = id}}

\* the uploads of "k" that exist
Siblings(f) == {id \in SeqRange(UploadIds) : IsDir(f, SiblingDir(id))}

\* C37: uploads of one key lie side by side in the hashed container of the
\* key; AbortMultipartUpload and CompleteMultipartUpload of one upload leave
\* the directory, the parts, the etags and the listing entry of every other
\* upload as they were; and while an upload of the key remains, the
\* container carries the object name and ListMultipartUploads reports the
\* upload under the key.
C37_SiblingsIndependent ==
    [][ (resp'.op \in {"AbortMultipartUpload", "CompleteMultipartUpload"}) =>
            /\ \A o \in Siblings(fs) \ {resp'.data.UploadId} :
                   /\ UploadTree(fs', o) = UploadTree(fs, o)
                   /\ ListedAs(fs', o) = ListedAs(fs, o)
            /\ \A o \in Siblings(fs') :
                   /\ IsDir(fs', Join(Bucket, MpObjDir(MpKey)))
                   /\ RetrieveAttribute(fs', Bucket, MpObjDir(MpKey), onameAttr)
                          = [err |-> OK, val |-> MpKey]
                   /\ ListedAs(fs', o) = {[Key |-> MpKey, UploadID |-> o]}
      ]_vars

\* "u1" was aborted with success while "u2" held a part: "u1" is gone,
\* "u2" has its part and is the one upload listed
C37_WitnessAbortBesideSibling ==
    /\ resp.op = "AbortMultipartUpload" /\ resp.err = OK
    /\ resp.data.UploadId = "u1"
    /\ Siblings(fs) = {"u2"}
    /\ Join(SiblingDir("u2"), <<PartName(1)>>) \in DOMAIN fs
    /\ ListMultipartUploads(fs, Bucket, Len(UploadIds)).Uploads
          = <<[Key |-> MpKey, UploadID |-> "u2"]>>

\* "u1" was completed with success while "u2" held a part with other bytes
C37_WitnessCompleteBesideSibling ==
    /\ resp.op = "CompleteMultipartUpload" /\ resp.err = OK
    /\ resp.data.UploadId = "u1"
    /\ "u2" \in Siblings(fs)
    /\ Join(SiblingDir("u2"), <<PartName(1)>>) \in DOMAIN fs
    /\ fs[Join(SiblingDir("u2"), <<PartName(1)>>)].data
          # fs[Join(Bucket, MpKey)].data

\* the last upload of the key was aborted: the container is gone
C37_WitnessLastAborted ==
    /\ resp.op = "AbortMultipartUpload" /\ resp.err = OK
    /\ Siblings(fs) = {}
    /\ ~Exists(fs, Join(Bucket, MpObjDir(MpKey)))
    /\ used = SeqRange(UploadIds)

-----------------------------------------------------------------------------
(* C38: the bucket-lock state machine *)

\* the lock state of the bucket: "none" when there is no bucket, "absent"
\* when it has no bucket-lock record, else the Enabled of the record
LockState(f) ==
    LET cfg == RetrieveAttribute(f, Bucket, <<"">>, bucketLockKey)
    IN  IF ~Exists(f, Bucket) THEN "none"
        ELSE IF cfg.err # OK THEN "absent"
        ELSE IF cfg.val.Enabled THEN "true" ELSE "false"

LockWrites == {"PutObjectLockConfiguration", "PutObjectLegalHold",
               "PutObjectRetention"}

C38_WitnessAbsentRefused ==
    /\ LockState(fs) = "absent"
    /\ Join(Bucket, <<"k">>) \in DOMAIN fs
    /\ resp.op = "PutObjectLegalHold" /\ resp.key = <<"k">>
    /\ resp.err = "InvalidBucketObjectLockConfiguration"

\* the record has Enabled false and a retention on the object "k" was
\* refused
C38_WitnessDisabledRetention ==
    /\ LockState(fs) = "false"
    /\ Join(Bucket, <<"k">>) \in DOMAIN fs
    /\ resp.op = "PutObjectRetention" /\ resp.key = <<"k">>
    /\ resp.err = "InvalidBucketObjectLockConfiguration"

-----------------------------------------------------------------------------
(* C39: ListObjectsV2 with a StartAfter and no ContinuationToken *)

\* the last call was a ListObjectsV2 with a StartAfter and without a
\* ContinuationToken
StartAfterAlone ==
    /\ resp.op = "ListObjectsV2" /\ resp.err = OK
    /\ resp.data.StartAfter # <<>>
    /\ resp.data.ContinuationToken = <<>>

\* C39: a ListObjectsV2 with a StartAfter and without a ContinuationToken
\* returns no key that is less than or equal to StartAfter.
C39_StartAfterAlone ==
    StartAfterAlone =>
        \A i \in 1..Len(resp.data.Contents) :
            KeyLess(resp.data.StartAfter[1], resp.data.Contents[i].Key)

\* C39, what the code does: without a ContinuationToken the page is the
\* page of the request without StartAfter.
C39_StartAfterIgnored ==
    StartAfterAlone =>
        /\ resp.data.Marker = <<>>
        /\ resp.data.Contents
              = ListObjectsV2(fs, Bucket, <<>>, <<>>, <<>>, "", resp.n).Contents

\* the bucket holds "a/k" and "b"; the page asked for with StartAfter "b"
\* and room for one key has the key "a/k"
C39_WitnessKeyBeforeStartAfter ==
    /\ StartAfterAlone
    /\ resp.data.StartAfter = <<(<<"b">>)>>
    /\ Join(Bucket, <<"b">>) \in DOMAIN fs
    /\ Len(resp.data.Contents) = 1
    /\ resp.data.Contents[1].Key = <<"a", "k">>

-----------------------------------------------------------------------------
(* C40: the ContentLength of GetObject *)

\* the last call was a GetObject that succeeded
GotObject == resp.op = "GetObject" /\ resp.err = OK

\* the size of the file the last GetObject read
SizeRead == Len(fs[Join(Bucket, resp.key)].data)

\* C40: the ContentLength of a successful GetObject is the number of bytes
\* it wrote to the writer: 1 for bytes=0-0, N - s for bytes=s- on a file of
\* N bytes, N for bytes=0-, and 0 for a directory-object.
C40_ContentLengthIsWritten ==
    GotObject =>
        /\ resp.n = Len(resp.data.Body)
        /\ (resp.key = MpKey /\ resp.data.Range.end = -1)
              => resp.n = SizeRead - resp.data.Range.start

\* C40, the ranges with an end inside the file, and the directory-object:
\* the ContentLength is the number of bytes written, end - start + 1 for
\* the file and 0 for the directory-object.
C40_ClosedRangeInside ==
    GotObject =>
        /\ (resp.key = MpKey /\ resp.data.Range.end \in 0..(SizeRead - 1))
              => /\ resp.n = Len(resp.data.Body)
                 /\ resp.n = resp.data.Range.end - resp.data.Range.start + 1
        /\ resp.key # MpKey => resp.n = 0 /\ resp.data.Body = <<>>

\* C40, what the code does for an open end: the ContentLength is
\* N - s + 1, which for a start inside or at the end of the file is one
\* more than the bytes written.
C40_OpenRangeOneMore ==
    (GotObject /\ resp.key = MpKey /\ resp.data.Range.end = -1) =>
        /\ resp.n = SizeRead - resp.data.Range.start + 1
        /\ resp.data.Range.start <= SizeRead
              => Len(resp.data.Body) = resp.n - 1

\* bytes=0- of the file of MaxSize bytes: every byte is written and the
\* ContentLength is MaxSize + 1
C40_WitnessWholeFile ==
    /\ GotObject /\ resp.key = MpKey
    /\ resp.data.Range = [start |-> 0, end |-> -1]
    /\ SizeRead = MaxSize
    /\ Len(resp.data.Body) = MaxSize
    /\ resp.n = MaxSize + 1

\* bytes=0-0 of a file of MaxSize bytes: one byte and ContentLength 1
C40_WitnessFirstByte ==
    /\ GotObject /\ resp.key = MpKey
    /\ resp.data.Range = [start |-> 0, end |-> 0]
    /\ SizeRead = MaxSize
    /\ resp.data.Body = <<1>> /\ resp.n = 1

\* a read of the directory-object "a/": nothing written, ContentLength 0
C40_WitnessDirectoryObject ==
    /\ GotObject /\ resp.key = <<"a", "">>
    /\ resp.data.Body = <<>> /\ resp.n = 0

====
